---- MODULE Spec2Model ----
(***************************************************************************)
(* A model of the core of ExamScoreAnalyzer: the ranking system            *)
(* (utils/ranking_system.py), the statistical analyzer (utils/analyzer.py),*)
(* the multi-sheet consolidation (utils/data_processor.py), the            *)
(* historical comparison (utils/historical_analyzer.py) and the user and   *)
(* exam session management (utils/user_manager.py over                     *)
(* utils/database_manager.py).                                             *)
(*                                                                         *)
(* Numbers: the code computes in floats.  Every score of the model is an   *)
(* integer, and every quantity derived from scores is kept as an exact     *)
(* integer multiple (quartiles times 4, fences times 8) or as a fraction   *)
(* [num, den]; on integer scores the float operations of the code that are *)
(* modelled here (sums, differences, products by 0.25, 0.5, 0.75 and 1.5)  *)
(* are exact, so the model computes the values the code computes.          *)
(***************************************************************************)
EXTENDS Integers, Sequences, FiniteSets, TLC

VARIABLES
    pc,                 \* position of the modelled session: the last operation run
    marks,              \* calculate_rankings / calculate_grade_distribution: marks
    student_names,      \* calculate_rankings: student_names ([] stands for None too)
    max_marks,          \* calculate_rankings: max_marks
    rankings,           \* result of calculate_rankings
    grade_distribution, \* result of calculate_grade_distribution ('counts')
    analysis_data,      \* st.session_state.analysis_data: the marks given to analyze
    analysis_results,   \* st.session_state.analysis_results: what analyze returned
    historical_exams,   \* st.session_state.historical_exams: exam name -> exam record
    multi_sheet_data,   \* st.session_state.multi_sheet_data: the current snapshot
    exam_name,          \* st.session_state.student_info['exam_name']
    previous_exam_name, \* compare_student_progress: previous_exam_name of the last call
    progress_data,      \* what the last compare_student_progress returned
    sheets_data,        \* consolidate_student_data: sheet name -> rows (name, score)
    consolidated_names, \* consolidate_student_data: raw name -> canonical name
    given_name1,        \* _calculate_name_similarity: name1
    given_name2,        \* _calculate_name_similarity: name2
    similarity,         \* what _calculate_name_similarity returned
    subject_data,       \* create_overall_ranking: subject -> list of marks
    overall_ranking,    \* what create_overall_ranking returned
    subject_leaders,    \* st.session_state.subject_leaders
    top_students,       \* st.session_state.top_students
    insights,           \* what get_improvement_insights returned
    avg_comparison,     \* what calculate_subject_averages_comparison returned
    class_summary,      \* what get_class_performance_summary returned
    stored_exams,       \* what get_stored_exams returned
    users,              \* the table users of the database
    exam_sessions,      \* the tables exam_sessions and student_data of the database
    user_authenticated, \* st.session_state.user_authenticated
    current_user,       \* st.session_state.current_user
    current_session_id, \* st.session_state.current_session_id
    message             \* what the last call of the UserManager returned

rankVars == <<marks, student_names, max_marks, rankings, grade_distribution>>
analyzeVars == <<analysis_data, analysis_results>>
historyVars == <<historical_exams, multi_sheet_data, exam_name, previous_exam_name,
                 progress_data>>

consolidateVars == <<sheets_data, consolidated_names>>

similarityVars == <<given_name1, given_name2, similarity>>
overallVars == <<subject_data, overall_ranking>>
insightVars == <<subject_leaders, top_students, insights, avg_comparison>>

summaryVars == <<class_summary>>
storeVars == <<stored_exams>>
userVars == <<users, exam_sessions, user_authenticated, current_user, current_session_id,
              message>>

vars == <<pc, rankVars, analyzeVars, historyVars, consolidateVars, similarityVars,
          overallVars, insightVars, summaryVars, storeVars, userVars>>

(***************************************************************************)
(* Bounds of the model.                                                    *)
(***************************************************************************)
MaxRankLen == 3
MaxRankMark == 3
MaxNamesLen == 2
MaxGradeLen == 2
MaxGradeMark == 21
MaxAnalyzeLen == 4
MaxAnalyzeMark == 3
MaxSheets == 2
MaxRows == 3
MaxNameLen == 3
MaxOverallLen == 2
MaxExamSessions == 2

(***************************************************************************)
(* Helpers.                                                                *)
(***************************************************************************)
SeqsUpTo(S, n) == UNION {[1..k -> S] : k \in 0..n}

Range(s) == {s[i] : i \in 1..Len(s)}

RECURSIVE SumSeq(_)
SumSeq(s) == IF s = <<>> THEN 0 ELSE s[1] + SumSeq(Tail(s))

\* A fraction num/den with den > 0, and its comparison with an integer.
Frac(n, d) == [num |-> n, den |-> d]
FracGE(f, k) == f.num >= k * f.den

(***************************************************************************)
(* list.sort(key=lambda x: x[field], reverse=True): a stable sort, so      *)
(* elements with equal keys keep their order.                              *)
(***************************************************************************)
RECURSIVE InsertDesc(_, _, _)
InsertDesc(sorted, e, field) ==
    IF sorted = <<>> THEN <<e>>
    ELSE IF sorted[1][field] >= e[field]
         THEN <<sorted[1]>> \o InsertDesc(Tail(sorted), e, field)
         ELSE <<e>> \o sorted

\* the bug of a sort that is not stable: an element goes before its equals
RECURSIVE InsertBeforeTies(_, _, _)
InsertBeforeTies(sorted, e, field) ==
    IF sorted = <<>> THEN <<e>>
    ELSE IF sorted[1][field] > e[field]
         THEN <<sorted[1]>> \o InsertBeforeTies(Tail(sorted), e, field)
         ELSE <<e>> \o sorted

RECURSIVE SortDescReversingTies(_, _)
SortDescReversingTies(s, field) ==
    IF s = <<>> THEN <<>>
    ELSE InsertBeforeTies(SortDescReversingTies(SubSeq(s, 1, Len(s) - 1), field),
                          s[Len(s)], field)

RECURSIVE SortDesc(_, _)
SortDesc(s, field) ==
    IF s = <<>> THEN <<>>
    ELSE InsertDesc(SortDesc(SubSeq(s, 1, Len(s) - 1), field), s[Len(s)], field)

(***************************************************************************)
(* RankingSystem._get_letter_grade                                         *)
(***************************************************************************)
Percentage(mark, maxm) == Frac(mark * 100, maxm)

\* the bug of excluding a band's lower edge: > 95 for >= 95
GetLetterGradeStrict(mark, maxm) ==
    LET percentage == Percentage(mark, maxm) IN
    IF percentage.num > 95 * percentage.den THEN "A+"
    ELSE IF FracGE(percentage, 85) THEN "A"
    ELSE IF FracGE(percentage, 75) THEN "B+"
    ELSE IF FracGE(percentage, 65) THEN "B"
    ELSE IF FracGE(percentage, 55) THEN "C+"
    ELSE IF FracGE(percentage, 45) THEN "C"
    ELSE IF FracGE(percentage, 35) THEN "D"
    ELSE "F"

GetLetterGrade(mark, maxm) ==
    LET percentage == Percentage(mark, maxm) IN
    IF FracGE(percentage, 95) THEN "A+"
    ELSE IF FracGE(percentage, 85) THEN "A"
    ELSE IF FracGE(percentage, 75) THEN "B+"
    ELSE IF FracGE(percentage, 65) THEN "B"
    ELSE IF FracGE(percentage, 55) THEN "C+"
    ELSE IF FracGE(percentage, 45) THEN "C"
    ELSE IF FracGE(percentage, 35) THEN "D"
    ELSE "F"

(***************************************************************************)
(* RankingSystem.calculate_rankings                                        *)
(***************************************************************************)
StudentName(names, i) ==
    IF names # <<>> /\ i <= Len(names) /\ names[i] # ""
    THEN names[i]
    ELSE "Student " \o ToString(i)

\* lines 25-33: one record per mark, in input order
Students(ms, names, maxm) ==
    [i \in 1..Len(ms) |->
        [name |-> StudentName(names, i),
         score |-> ms[i],
         grade |-> GetLetterGrade(ms[i], maxm)]]

\* the bug of dense ranking: the rank after a tie is the next number
RECURSIVE CurrentRankDense(_, _, _)
CurrentRankDense(sorted, i, field) ==
    IF i = 1 THEN 1
    ELSE IF sorted[i - 1][field] # sorted[i][field]
         THEN CurrentRankDense(sorted, i - 1, field) + 1
         ELSE CurrentRankDense(sorted, i - 1, field)

\* lines 40-44: the rank of position i of the sorted list
RECURSIVE CurrentRank(_, _, _)
CurrentRank(sorted, i, field) ==
    IF i = 1 THEN 1
    ELSE IF sorted[i - 1][field] # sorted[i][field] THEN i
    ELSE CurrentRank(sorted, i - 1, field)

CalculateRankingsOf(ms, names, maxm) ==
    IF ms = <<>> THEN <<>>
    ELSE LET students == SortDesc(Students(ms, names, maxm), "score") IN
         [i \in 1..Len(students) |->
            [rank |-> CurrentRank(students, i, "score"),
             student_name |-> students[i].name,
             score |-> students[i].score,
             grade |-> students[i].grade,
             percentage |-> Percentage(students[i].score, maxm)]]

(***************************************************************************)
(* RankingSystem.get_class_performance_summary; a dict of counts is a      *)
(* sequence of [k, v] items in insertion order, the class average the      *)
(* fraction sum / count.                                                   *)
(***************************************************************************)
\* lines 219-225: grade_counts[grade] = grade_counts.get(grade, 0) + 1
RECURSIVE GradeCounts(_, _)
GradeCounts(rks, grade_counts) ==
    IF rks = <<>> THEN grade_counts
    ELSE LET seen == \E i \in 1..Len(grade_counts) : grade_counts[i].k = rks[1].grade
             at == CHOOSE i \in 1..Len(grade_counts) : grade_counts[i].k = rks[1].grade
         IN GradeCounts(Tail(rks),
                IF seen
                THEN [i \in 1..Len(grade_counts) |->
                         IF i = at
                         THEN [k |-> rks[1].grade, v |-> grade_counts[i].v + 1]
                         ELSE grade_counts[i]]
                ELSE Append(grade_counts, [k |-> rks[1].grade, v |-> 1]))

CalculateGradeDistributionOfRankings(rks) == GradeCounts(rks, <<>>)

Scores(rks) == [i \in 1..Len(rks) |-> rks[i].score]

MaxOf(scores) == CHOOSE x \in Range(scores) : \A y \in Range(scores) : y <= x
MinOf(scores) == CHOOSE x \in Range(scores) : \A y \in Range(scores) : y >= x

\* the bug of naming the last entry as the top performer
TopPerformerLast(rks) == rks[Len(rks)].student_name

\* line 215: rankings[0]['student_name']
TopPerformer(rks) == rks[1].student_name

\* lines 204-217: {} for no rankings, the summary otherwise
GetClassPerformanceSummaryOf(rks) ==
    IF rks = <<>> THEN <<>>
    ELSE <<[class_average |-> Frac(SumSeq(Scores(rks)), Len(rks)),
            highest_score |-> MaxOf(Scores(rks)),
            lowest_score |-> MinOf(Scores(rks)),
            total_students |-> Len(rks),
            top_performer |-> TopPerformer(rks),
            grade_distribution |-> CalculateGradeDistributionOfRankings(rks)]>>

(***************************************************************************)
(* ExamAnalyzer.calculate_grade_distribution ('counts')                    *)
(***************************************************************************)
Grades == {"A+", "A", "B+", "B", "C+", "C", "D", "F"}

AnalyzerGrade(mark, maxm) ==
    LET percentage == Percentage(mark, maxm) IN
    IF FracGE(percentage, 95) THEN "A+"
    ELSE IF FracGE(percentage, 85) THEN "A"
    ELSE IF FracGE(percentage, 75) THEN "B+"
    ELSE IF FracGE(percentage, 65) THEN "B"
    ELSE IF FracGE(percentage, 55) THEN "C+"
    ELSE IF FracGE(percentage, 45) THEN "C"
    ELSE IF FracGE(percentage, 35) THEN "D"
    ELSE "F"

CalculateGradeDistributionOf(ms, maxm) ==
    [g \in Grades |-> Cardinality({i \in 1..Len(ms) : AnalyzerGrade(ms[i], maxm) = g})]

(***************************************************************************)
(* ExamAnalyzer.analyze.  A mark is a number or NaN.  The result carries   *)
(* q1, q3 and iqr times 4 and the two fences times 8, which are integers   *)
(* for integer marks.  Of the result bundle the model keeps the fields     *)
(* below; mean, std_dev, variance, skewness, kurtosis and the percentile   *)
(* ladder depend on nothing else and nothing else depends on them.         *)
(***************************************************************************)
NaN == [nan |-> TRUE, v |-> 0]
Num(x) == [nan |-> FALSE, v |-> x]

\* what a call that raised leaves behind, and the value before any call
Raise(msg) == [error |-> msg]
NotCalled == [error |-> "not called"]

\* the bug of not discarding NaN
MarksCleanKeepNaN(marks_array) == [i \in 1..Len(marks_array) |-> marks_array[i].v]

\* line 24: marks_array[~np.isnan(marks_array)], as plain integers
RECURSIVE MarksClean(_)
MarksClean(marks_array) ==
    IF marks_array = <<>> THEN <<>>
    ELSE IF marks_array[1].nan THEN MarksClean(Tail(marks_array))
    ELSE <<marks_array[1].v>> \o MarksClean(Tail(marks_array))

RECURSIVE InsertAsc(_, _)
InsertAsc(sorted, e) ==
    IF sorted = <<>> THEN <<e>>
    ELSE IF sorted[1] <= e THEN <<sorted[1]>> \o InsertAsc(Tail(sorted), e)
    ELSE <<e>> \o sorted

RECURSIVE SortAsc(_)
SortAsc(s) == IF s = <<>> THEN <<>> ELSE InsertAsc(SortAsc(Tail(s)), s[1])

\* the bug of interpolating in the array as given, not sorted
Percentile4Unsorted(a, k) ==
    LET n == Len(a)
        lo == ((n - 1) * k) \div 4
        rem == ((n - 1) * k) % 4
        hi == IF lo + 1 <= n - 1 THEN lo + 1 ELSE n - 1
    IN 4 * a[lo + 1] + rem * (a[hi + 1] - a[lo + 1])

\* np.percentile(a, 25 * k) times 4, k in 1..3, by linear interpolation: the
\* virtual index is (n - 1) * k / 4, and the value lies that far between the
\* two order statistics around it
Percentile4(a, k) ==
    LET s == SortAsc(a)
        n == Len(s)
        lo == ((n - 1) * k) \div 4
        rem == ((n - 1) * k) % 4
        hi == IF lo + 1 <= n - 1 THEN lo + 1 ELSE n - 1
    IN 4 * s[lo + 1] + rem * (s[hi + 1] - s[lo + 1])

\* np.median times 2
Median2(a) ==
    LET s == SortAsc(a)
        n == Len(s)
    IN IF n % 2 = 1 THEN 2 * s[(n + 1) \div 2]
       ELSE s[n \div 2] + s[n \div 2 + 1]

Occurrences(a, x) == Cardinality({i \in 1..Len(a) : a[i] = x})

\* the bug of reporting a value that occurs once as the mode
CalculateModeAlways(a) ==
    LET best == CHOOSE x \in Range(a) :
                    \A y \in Range(a) :
                        \/ Occurrences(a, x) > Occurrences(a, y)
                        \/ Occurrences(a, x) = Occurrences(a, y) /\ x <= y
    IN IF Occurrences(a, best) >= 1 THEN <<best>> ELSE <<>>

\* _calculate_mode: scipy's mode is the smallest of the most frequent values;
\* <<>> stands for None
CalculateMode(a) ==
    LET best == CHOOSE x \in Range(a) :
                    \A y \in Range(a) :
                        \/ Occurrences(a, x) > Occurrences(a, y)
                        \/ Occurrences(a, x) = Occurrences(a, y) /\ x <= y
    IN IF Occurrences(a, best) > 1 THEN <<best>> ELSE <<>>

\* the bug of an open fence: a score on a fence counted as an outlier
RECURSIVE SelectOutsideInclusive(_, _, _)
SelectOutsideInclusive(a, lower8, upper8) ==
    IF a = <<>> THEN <<>>
    ELSE IF 8 * a[1] <= lower8 \/ 8 * a[1] >= upper8
         THEN <<a[1]>> \o SelectOutsideInclusive(Tail(a), lower8, upper8)
         ELSE SelectOutsideInclusive(Tail(a), lower8, upper8)

RECURSIVE SelectOutside(_, _, _)
SelectOutside(a, lower8, upper8) ==
    IF a = <<>> THEN <<>>
    ELSE IF 8 * a[1] < lower8 \/ 8 * a[1] > upper8
         THEN <<a[1]>> \o SelectOutside(Tail(a), lower8, upper8)
         ELSE SelectOutside(Tail(a), lower8, upper8)

\* _detect_outliers
DetectOutliers(a) ==
    LET q1 == Percentile4(a, 1)
        q3 == Percentile4(a, 3)
        iqr == q3 - q1
        lower_bound == 2 * q1 - 3 * iqr
        upper_bound == 2 * q3 + 3 * iqr
        outliers == SelectOutside(a, lower_bound, upper_bound)
    IN [outliers |-> outliers,
        outlier_count |-> Len(outliers),
        outlier_percentage |-> Frac(Len(outliers) * 100, Len(a)),
        lower_bound8 |-> lower_bound,
        upper_bound8 |-> upper_bound]

AnalyzeOf(ms) ==
    IF ms = <<>> THEN Raise("No marks provided for analysis")
    ELSE LET marks_clean == MarksClean(ms)
             out == DetectOutliers(marks_clean)
         IN IF Len(marks_clean) = 0 THEN Raise("No valid marks found")
            ELSE [error |-> "",
                  count |-> Len(marks_clean),
                  median2 |-> Median2(marks_clean),
                  mode |-> CalculateMode(marks_clean),
                  min |-> SortAsc(marks_clean)[1],
                  max |-> SortAsc(marks_clean)[Len(marks_clean)],
                  q1x4 |-> Percentile4(marks_clean, 1),
                  q3x4 |-> Percentile4(marks_clean, 3),
                  iqr4 |-> Percentile4(marks_clean, 3) - Percentile4(marks_clean, 1),
                  marks |-> marks_clean,
                  outliers |-> out.outliers,
                  outlier_count |-> out.outlier_count,
                  outlier_percentage |-> out.outlier_percentage,
                  lower_bound8 |-> out.lower_bound8,
                  upper_bound8 |-> out.upper_bound8]

(***************************************************************************)
(* Python strings are sequences of characters: names, sheet names and      *)
(* subject names are sequences of one-character strings, so that strip,    *)
(* lower, title, replace, "in" and SequenceMatcher are computed.           *)
(***************************************************************************)
LowerLetters == <<"a", "b", "c", "d", "e", "f", "g", "h", "i", "j", "k", "l", "m",
                  "n", "o", "p", "q", "r", "s", "t", "u", "v", "w", "x", "y", "z">>
UpperLetters == <<"A", "B", "C", "D", "E", "F", "G", "H", "I", "J", "K", "L", "M",
                  "N", "O", "P", "Q", "R", "S", "T", "U", "V", "W", "X", "Y", "Z">>

IsLower(c) == \E i \in 1..Len(LowerLetters) : LowerLetters[i] = c
IsUpper(c) == \E i \in 1..Len(UpperLetters) : UpperLetters[i] = c
IsLetter(c) == IsLower(c) \/ IsUpper(c)
LowerChar(c) ==
    IF IsUpper(c) THEN LowerLetters[CHOOSE i \in 1..Len(UpperLetters) : UpperLetters[i] = c]
    ELSE c
UpperChar(c) ==
    IF IsLower(c) THEN UpperLetters[CHOOSE i \in 1..Len(LowerLetters) : LowerLetters[i] = c]
    ELSE c

\* str.lower()
Lower(str) == [i \in 1..Len(str) |-> LowerChar(str[i])]

\* str.strip(): without the leading and the trailing blanks
RECURSIVE LStrip(_)
LStrip(str) == IF str # <<>> /\ str[1] = " " THEN LStrip(Tail(str)) ELSE str
RECURSIVE RStrip(_)
RStrip(str) ==
    IF str # <<>> /\ str[Len(str)] = " " THEN RStrip(SubSeq(str, 1, Len(str) - 1)) ELSE str
Strip(str) == RStrip(LStrip(str))

\* str.replace('_', ' ')
ReplaceUnderscores(str) == [i \in 1..Len(str) |-> IF str[i] = "_" THEN " " ELSE str[i]]

\* str.title(): a letter that follows no letter in upper case, the other
\* letters in lower case
Title(str) ==
    [i \in 1..Len(str) |->
        IF i = 1 \/ ~IsLetter(str[i - 1]) THEN UpperChar(str[i]) ELSE LowerChar(str[i])]

\* a in b, for strings
IsSubstring(a, b) ==
    \E i \in 0..(Len(b) - Len(a)) : SubSeq(b, i + 1, i + Len(a)) = a

\* the key 'Total'
TotalKey == <<"T", "o", "t", "a", "l">>

(***************************************************************************)
(* Python dicts keep their keys in insertion order, and the code iterates  *)
(* over them: a dict is the sequence of its items [k, v], keys distinct.   *)
(***************************************************************************)
Item(key, val) == [k |-> key, v |-> val]
KeySet(d) == {d[i].k : i \in 1..Len(d)}
Has(d, key) == key \in KeySet(d)
Get(d, key) == d[CHOOSE i \in 1..Len(d) : d[i].k = key].v
\* d[key] = val: in place for a key of d, appended otherwise
Put(d, key, val) ==
    IF Has(d, key)
    THEN [i \in 1..Len(d) |-> IF d[i].k = key THEN Item(key, val) ELSE d[i]]
    ELSE Append(d, Item(key, val))

RECURSIVE SumValues(_)
SumValues(d) == IF d = <<>> THEN 0 ELSE d[1].v + SumValues(Tail(d))

\* an optional value: None, or the value
None == <<>>
Some(x) == <<x>>

(***************************************************************************)
(* difflib.SequenceMatcher(None, a, b).ratio(): 2 * M / T, where T is the  *)
(* number of characters of both strings and M the number of characters in  *)
(* the matching blocks: the longest common block (of the longest, the one  *)
(* that starts earliest in a, then earliest in b), then the same to its    *)
(* left and to its right.  No character is junk (isjunk is None, and the   *)
(* automatic junk heuristic needs 200 characters).                         *)
(***************************************************************************)
Matches(a, b) ==
    {m \in (0..(Len(a) - 1)) \X (0..(Len(b) - 1)) \X (1..Len(a)) :
        /\ m[1] + m[3] <= Len(a)
        /\ m[2] + m[3] <= Len(b)
        /\ SubSeq(a, m[1] + 1, m[1] + m[3]) = SubSeq(b, m[2] + 1, m[2] + m[3])}

FindLongestMatch(a, b) ==
    LET ms == Matches(a, b) IN
    IF ms = {} THEN <<0, 0, 0>>
    ELSE CHOOSE m \in ms :
            \A o \in ms :
                \/ m[3] > o[3]
                \/ m[3] = o[3] /\ m[1] < o[1]
                \/ m[3] = o[3] /\ m[1] = o[1] /\ m[2] <= o[2]

RECURSIVE MatchingCharacters(_, _)
MatchingCharacters(a, b) ==
    LET m == FindLongestMatch(a, b) IN
    IF m[3] = 0 THEN 0
    ELSE m[3]
         + MatchingCharacters(SubSeq(a, 1, m[1]), SubSeq(b, 1, m[2]))
         + MatchingCharacters(SubSeq(a, m[1] + m[3] + 1, Len(a)),
                              SubSeq(b, m[2] + m[3] + 1, Len(b)))

Ratio(a, b) ==
    IF Len(a) + Len(b) = 0 THEN Frac(1, 1)
    ELSE Frac(2 * MatchingCharacters(a, b), Len(a) + Len(b))

\* the bug of comparing the names as written, case included
CalculateNameSimilarityCaseSensitive(name1, name2) ==
    LET n1 == Strip(name1)
        n2 == Strip(name2)
    IN IF n1 = n2 THEN Frac(1, 1)
       ELSE IF IsSubstring(n1, n2) \/ IsSubstring(n2, n1) THEN Frac(9, 10)
       ELSE Ratio(n1, n2)

\* the bug of looking for the first name in the second only
CalculateNameSimilarityOneWay(name1, name2) ==
    LET n1 == Strip(Lower(name1))
        n2 == Strip(Lower(name2))
    IN IF n1 = n2 THEN Frac(1, 1)
       ELSE IF IsSubstring(n1, n2) THEN Frac(9, 10)
       ELSE Ratio(n1, n2)

(***************************************************************************)
(* DataProcessor._calculate_name_similarity                                *)
(***************************************************************************)
CalculateNameSimilarity(name1, name2) ==
    LET n1 == Strip(Lower(name1))
        n2 == Strip(Lower(name2))
    IN IF n1 = n2 THEN Frac(1, 1)
       ELSE IF IsSubstring(n1, n2) \/ IsSubstring(n2, n1) THEN Frac(9, 10)
       ELSE Ratio(n1, n2)

\* similarity_threshold=0.8
SimilarityThreshold == Frac(8, 10)

\* similarity >= similarity_threshold
FracGEFrac(f, t) == f.num * t.den >= t.num * f.den

(***************************************************************************)
(* DataProcessor.consolidate_student_data.  A sheet is the list of its     *)
(* rows, each a name cell and a score cell; a cell is NaN or a value.  A   *)
(* sheet without a name column is skipped by both passes, as a sheet       *)
(* without rows is; a sheet without a score column gives its names to the  *)
(* first pass and nothing to the second, as a sheet whose scores are all   *)
(* NaN does.                                                               *)
(***************************************************************************)
NaNName == [nan |-> TRUE, v |-> <<>>]
Name(str) == [nan |-> FALSE, v |-> str]

\* str(cell)
Str(cell) == IF cell.nan THEN <<"n", "a", "n">> ELSE cell.v

\* lines 191-194: the names of one sheet, added to all_students
RECURSIVE CollectNames(_, _)
CollectNames(rows, all_students) ==
    IF rows = <<>> THEN all_students
    ELSE LET name == Strip(Str(rows[1].name))
         IN CollectNames(Tail(rows),
                IF ~rows[1].name.nan /\ name # <<>>
                THEN Put(all_students, name, name) ELSE all_students)

\* lines 188-194: the first pass
RECURSIVE AllStudentsFrom(_, _)
AllStudentsFrom(sheets, all_students) ==
    IF sheets = <<>> THEN all_students
    ELSE AllStudentsFrom(Tail(sheets), CollectNames(sheets[1].v, all_students))

\* the distinct names in the order they are first seen
AllStudents(sheets) ==
    LET d == AllStudentsFrom(sheets, <<>>) IN [i \in 1..Len(d) |-> d[i].k]

\* a clustering that merges only the names equal up to case and outer blanks
SimilarToEqualOnly(name, others, used_names) ==
    SelectSeq(others, LAMBDA other_name :
        /\ other_name # name
        /\ other_name \notin used_names
        /\ Strip(Lower(other_name)) = Strip(Lower(name)))

\* lines 205-210: name, then the other names not yet used that are similar to it
RECURSIVE SimilarTo(_, _, _)
SimilarTo(name, others, used_names) ==
    IF others = <<>> THEN <<>>
    ELSE LET other_name == others[1]
             rest == SimilarTo(name, Tail(others), used_names)
         IN IF /\ other_name # name
               /\ other_name \notin used_names
               /\ FracGEFrac(CalculateNameSimilarity(name, other_name),
                             SimilarityThreshold)
            THEN <<other_name>> \o rest
            ELSE rest

\* the bug of labelling a cluster with the normalised form of its longest name
LongestLowered(similar_names) ==
    Lower(similar_names[CHOOSE i \in 1..Len(similar_names) :
        /\ \A j \in 1..Len(similar_names) : Len(similar_names[j]) <= Len(similar_names[i])
        /\ \A j \in 1..(i - 1) : Len(similar_names[j]) < Len(similar_names[i])])

\* the bug of keeping the last of the longest names
LongestLast(similar_names) ==
    similar_names[CHOOSE i \in 1..Len(similar_names) :
        /\ \A j \in 1..Len(similar_names) : Len(similar_names[j]) <= Len(similar_names[i])
        /\ \A j \in (i + 1)..Len(similar_names) :
              Len(similar_names[j]) < Len(similar_names[i])]

\* line 213: max(similar_names, key=len), the first of the longest
Longest(similar_names) ==
    similar_names[CHOOSE i \in 1..Len(similar_names) :
        /\ \A j \in 1..Len(similar_names) : Len(similar_names[j]) <= Len(similar_names[i])
        /\ \A j \in 1..(i - 1) : Len(similar_names[j]) < Len(similar_names[i])]

RECURSIVE PutAll(_, _, _)
PutAll(d, keys, val) ==
    IF keys = <<>> THEN d ELSE PutAll(Put(d, keys[1], val), Tail(keys), val)

\* lines 197-216: the clustering, from the i-th name on
RECURSIVE ClusterFrom(_, _, _, _)
ClusterFrom(names, i, cnames, used_names) ==
    IF i > Len(names) THEN cnames
    ELSE IF names[i] \in used_names THEN ClusterFrom(names, i + 1, cnames, used_names)
    ELSE LET similar_names == <<names[i]>> \o SimilarTo(names[i], names, used_names)
             canonical_name == Longest(similar_names)
         IN ClusterFrom(names, i + 1,
                        PutAll(cnames, similar_names, canonical_name),
                        used_names \cup Range(similar_names))

ConsolidatedNames(sheets) == ClusterFrom(AllStudents(sheets), 1, <<>>, {})

\* the bug of keeping the first score of a student in a sheet
RECURSIVE RecordRowsFirstWins(_, _, _, _)
RecordRowsFirstWins(rows, subject_name, cnames, student_data) ==
    IF rows = <<>> THEN student_data
    ELSE LET original_name == Strip(Str(rows[1].name))
             canonical_name == IF Has(cnames, original_name)
                               THEN Get(cnames, original_name) ELSE original_name
             score == rows[1].score
             subjects == IF Has(student_data, canonical_name)
                         THEN Get(student_data, canonical_name) ELSE <<>>
         IN RecordRowsFirstWins(Tail(rows), subject_name, cnames,
                IF ~score.nan /\ canonical_name # <<>> /\ ~Has(subjects, subject_name)
                THEN Put(student_data, canonical_name,
                         Put(subjects, subject_name, score.v))
                ELSE student_data)

\* lines 235-243: the rows of one sheet recorded under its subject
RECURSIVE RecordRows(_, _, _, _)
RecordRows(rows, subject_name, cnames, student_data) ==
    IF rows = <<>> THEN student_data
    ELSE LET original_name == Strip(Str(rows[1].name))
             canonical_name == IF Has(cnames, original_name)
                               THEN Get(cnames, original_name) ELSE original_name
             score == rows[1].score
             subjects == IF Has(student_data, canonical_name)
                         THEN Get(student_data, canonical_name) ELSE <<>>
         IN RecordRows(Tail(rows), subject_name, cnames,
                IF ~score.nan /\ canonical_name # <<>>
                THEN Put(student_data, canonical_name,
                         Put(subjects, subject_name, score.v))
                ELSE student_data)

\* lines 221-243: the second pass
RECURSIVE RecordSheets(_, _, _)
RecordSheets(sheets, cnames, student_data) ==
    IF sheets = <<>> THEN student_data
    ELSE RecordSheets(Tail(sheets), cnames,
            RecordRows(sheets[1].v, Title(ReplaceUnderscores(sheets[1].k)),
                       cnames, student_data))

\* line 247: student_data[student]['Total'] = sum(subjects.values())
WithTotal(subjects) == Put(subjects, TotalKey, SumValues(subjects))

ConsolidateStudentData(sheets) ==
    LET student_data == RecordSheets(sheets, ConsolidatedNames(sheets), <<>>) IN
    [i \in 1..Len(student_data) |->
        Item(student_data[i].k, WithTotal(student_data[i].v))]

(***************************************************************************)
(* HistoricalAnalyzer.compare_student_progress                             *)
(***************************************************************************)
\* the bug of dividing by the current score
PercentageChangeOfCurrent(change, previous_score) ==
    IF previous_score > 0
    THEN Frac(change * 100, previous_score + change) ELSE Frac(0, 1)

\* line 72: (change / previous_score) * 100 if previous_score > 0 else 0
PercentageChange(change, previous_score) ==
    IF previous_score > 0 THEN Frac(change * 100, previous_score) ELSE Frac(0, 1)

\* lines 68-79: the entries of student_progress['subjects'], in the order of
\* the current record
RECURSIVE SubjectsProgress(_, _)
SubjectsProgress(current_scores, previous_scores) ==
    IF current_scores = <<>> THEN <<>>
    ELSE LET subject == current_scores[1].k
             current_score == current_scores[1].v
             rest == SubjectsProgress(Tail(current_scores), previous_scores)
         IN IF Has(previous_scores, subject)
            THEN LET previous_score == Get(previous_scores, subject)
                     change == current_score - previous_score
                 IN <<Item(subject,
                           [current |-> current_score,
                            previous |-> previous_score,
                            change |-> change,
                            percentage_change |->
                                PercentageChange(change, previous_score)])>> \o rest
            ELSE rest

\* lines 84-87: the subjects other than Total whose change has the given sign
RECURSIVE SubjectsWithSign(_, _)
SubjectsWithSign(subjects, sign) ==
    IF subjects = <<>> THEN <<>>
    ELSE LET rest == SubjectsWithSign(Tail(subjects), sign)
             c == subjects[1].v.change
         IN IF subjects[1].k # TotalKey /\ ((sign > 0 /\ c > 0) \/ (sign < 0 /\ c < 0))
            THEN <<subjects[1].k>> \o rest
            ELSE rest

\* the bug of closed thresholds: >= 5 and <= -5
OverallTrendInclusive(total_change) ==
    IF total_change >= 5 THEN "improved"
    ELSE IF total_change <= -5 THEN "declined"
    ELSE "stable"

\* lines 89-93
OverallTrend(total_change) ==
    IF total_change > 5 THEN "improved"
    ELSE IF total_change < -5 THEN "declined"
    ELSE "stable"

\* lines 58-95: the record of one joined student
StudentProgress(student, current_scores, previous_scores) ==
    LET subjects == SubjectsProgress(current_scores, previous_scores)
        total_change == IF Has(subjects, TotalKey) THEN Get(subjects, TotalKey).change ELSE 0
    IN [student_name |-> student,
        subjects |-> subjects,
        total_change |-> total_change,
        total_percentage_change |->
            IF Has(subjects, TotalKey)
            THEN Some(Get(subjects, TotalKey).percentage_change) ELSE None,
        improved_subjects |-> SubjectsWithSign(subjects, 1),
        declined_subjects |-> SubjectsWithSign(subjects, -1),
        overall_trend |-> OverallTrend(total_change)]

\* the bug of returning from inside the loop, after the first joined student
RECURSIVE ProgressOfEarlyReturn(_, _)
ProgressOfEarlyReturn(current_student_data, previous_data) ==
    IF current_student_data = <<>> THEN <<>>
    ELSE LET student == current_student_data[1].k
         IN IF Has(previous_data, student)
            THEN <<Item(student,
                        StudentProgress(student, current_student_data[1].v,
                                        Get(previous_data, student)))>>
            ELSE ProgressOfEarlyReturn(Tail(current_student_data), previous_data)

\* lines 56-95: the loop over the current snapshot
RECURSIVE ProgressOf(_, _)
ProgressOf(current_student_data, previous_data) ==
    IF current_student_data = <<>> THEN <<>>
    ELSE LET student == current_student_data[1].k
             rest == ProgressOf(Tail(current_student_data), previous_data)
         IN IF Has(previous_data, student)
            THEN <<Item(student,
                        StudentProgress(student, current_student_data[1].v,
                                        Get(previous_data, student)))>> \o rest
            ELSE rest

\* the bug of comparing with the exam stored first, whatever the name
CompareWithFirstStored(exams, current_student_data, previous) ==
    IF ~Has(exams, previous) THEN None
    ELSE Some(ProgressOf(current_student_data, exams[1].v.student_data))

\* lines 50-97
CompareStudentProgressOf(exams, current_student_data, previous) ==
    IF ~Has(exams, previous) THEN None
    ELSE Some(ProgressOf(current_student_data, Get(exams, previous).student_data))

(***************************************************************************)
(* HistoricalAnalyzer.create_comprehensive_ranking                         *)
(***************************************************************************)
RECURSIVE WithoutKey(_, _)
WithoutKey(d, key) ==
    IF d = <<>> THEN <<>>
    ELSE IF d[1].k = key THEN WithoutKey(Tail(d), key)
    ELSE <<d[1]>> \o WithoutKey(Tail(d), key)

\* max(items, key=lambda x: x[1]) and min(...): the first item with the
\* largest (smallest) value; None for no item
BestItem(d) ==
    IF d = <<>> THEN None
    ELSE Some(d[CHOOSE i \in 1..Len(d) :
                    /\ \A j \in 1..Len(d) : d[j].v <= d[i].v
                    /\ \A j \in 1..(i - 1) : d[j].v < d[i].v])
WorstItem(d) ==
    IF d = <<>> THEN None
    ELSE Some(d[CHOOSE i \in 1..Len(d) :
                    /\ \A j \in 1..Len(d) : d[j].v >= d[i].v
                    /\ \A j \in 1..(i - 1) : d[j].v > d[i].v])

\* lines 205-220: one ranking_data per student with a Total, in snapshot order
RECURSIVE RankingData(_)
RankingData(student_data) ==
    IF student_data = <<>> THEN <<>>
    ELSE LET scores == student_data[1].v
             rest == RankingData(Tail(student_data))
         IN IF Has(scores, TotalKey)
            THEN LET subject_scores == WithoutKey(scores, TotalKey)
                     total_score == Get(scores, TotalKey)
                 IN <<[student_name |-> student_data[1].k,
                       total_score |-> total_score,
                       subject_count |-> Len(subject_scores),
                       average_per_subject |->
                            IF subject_scores # <<>>
                            THEN Frac(total_score, Len(subject_scores)) ELSE Frac(0, 1),
                       best_subject |-> BestItem(subject_scores),
                       worst_subject |-> WorstItem(subject_scores),
                       subject_scores |-> subject_scores]>> \o rest
            ELSE rest

\* lines 225-227: ranking['rank'] = i + 1
PositionRank(sorted, i, field) == i

CreateComprehensiveRankingOf(student_data) ==
    LET sorted == SortDesc(RankingData(student_data), "total_score") IN
    [i \in 1..Len(sorted) |->
        [student_name |-> sorted[i].student_name,
         total_score |-> sorted[i].total_score,
         subject_count |-> sorted[i].subject_count,
         average_per_subject |-> sorted[i].average_per_subject,
         best_subject |-> sorted[i].best_subject,
         worst_subject |-> sorted[i].worst_subject,
         subject_scores |-> sorted[i].subject_scores,
         rank |-> PositionRank(sorted, i, "total_score")]]

(***************************************************************************)
(* The functions of HistoricalAnalyzer take a snapshot by reference.  They *)
(* read it (items(), values(), in, scores[subject]) and build their        *)
(* results from new dicts, lists and tuples; no statement assigns into the *)
(* snapshot or into a record of it, and none calls a method that changes   *)
(* one.  The object after a call holds what it held before.                *)
(***************************************************************************)
\* the bug of taking 'Total' out of the records with pop
SnapshotWithoutTotals(student_data) ==
    [i \in 1..Len(student_data) |->
        Item(student_data[i].k, WithoutKey(student_data[i].v, TotalKey))]

SnapshotAfterCall(student_data) == student_data

\* the exam history after a call that read the snapshot stored under name
ExamsAfterCall(exams, name) ==
    IF Has(exams, name)
    THEN Put(exams, name,
             [student_data |-> SnapshotAfterCall(Get(exams, name).student_data)])
    ELSE exams

(***************************************************************************)
(* HistoricalAnalyzer.store_exam_data; the date and the time of storing are*)
(* not modelled                                                            *)
(***************************************************************************)
\* the bug of adding a record for every call
StoreExamDataAppend(exams, name, student_data) ==
    Append(exams, Item(name, [student_data |-> student_data]))

\* line 32: st.session_state.historical_exams[exam_name] = exam_record
StoreExamDataOf(exams, name, student_data) ==
    Put(exams, name, [student_data |-> student_data])

\* get_stored_exams, line 37: list(st.session_state.historical_exams.keys())
GetStoredExamsOf(exams) == [i \in 1..Len(exams) |-> exams[i].k]

(***************************************************************************)
(* RankingSystem.create_overall_ranking.  subject_data is a dict from a    *)
(* subject to its list of marks; a mark is None or a number.               *)
(***************************************************************************)
\* line 102: max(len(marks) for marks in subject_data.values())
RECURSIVE NumStudents(_)
NumStudents(sd) ==
    IF sd = <<>> THEN 0
    ELSE LET rest == NumStudents(Tail(sd))
         IN IF Len(sd[1].v) > rest THEN Len(sd[1].v) ELSE rest

\* lines 115-121: the marks student i has, one per subject that has one
RECURSIVE MarksOfStudent(_, _)
MarksOfStudent(sd, i) ==
    IF sd = <<>> THEN <<>>
    ELSE (IF i <= Len(sd[1].v) /\ sd[1].v[i] # None THEN <<sd[1].v[i][1]>> ELSE <<>>)
         \o MarksOfStudent(Tail(sd), i)

\* lines 110-129: the students that have a mark, in input order
RECURSIVE StudentTotals(_, _, _)
StudentTotals(sd, names, i) ==
    IF i > NumStudents(sd) THEN <<>>
    ELSE LET ms == MarksOfStudent(sd, i)
         IN (IF Len(ms) > 0
             THEN <<[name |-> StudentName(names, i),
                     total_marks |-> SumSeq(ms),
                     average |-> Frac(SumSeq(ms), Len(ms)),
                     subjects_count |-> Len(ms)]>>
             ELSE <<>>) \o StudentTotals(sd, names, i + 1)

\* lines 131-150
OverallRankingOf(sd, names) ==
    LET student_totals == SortDesc(StudentTotals(sd, names, 1), "total_marks") IN
    [i \in 1..Len(student_totals) |->
        [rank |-> CurrentRank(student_totals, i, "total_marks"),
         student_name |-> student_totals[i].name,
         total_marks |-> student_totals[i].total_marks,
         average |-> student_totals[i].average,
         subjects_count |-> student_totals[i].subjects_count]]

\* the bug of taking max() of no subject: a ValueError in place of a ranking
CreateOverallRankingMaxOfNothing(sd, names) ==
    IF sd = <<>> THEN <<Raise("max() arg is an empty sequence")>>
    ELSE OverallRankingOf(sd, names)

CreateOverallRankingOf(sd, names) ==
    IF sd = <<>> THEN <<>>
    ELSE IF NumStudents(sd) = 0 THEN <<>>
    ELSE OverallRankingOf(sd, names)

(***************************************************************************)
(* HistoricalAnalyzer.calculate_subject_averages_comparison.  An average   *)
(* is the fraction sum / count.                                            *)
(***************************************************************************)
\* lines 114-117: the scores of one student appended to the subjects' lists
RECURSIVE AppendScores(_, _)
AppendScores(subjects, scores) ==
    IF scores = <<>> THEN subjects
    ELSE LET subject == scores[1].k
             so_far == IF Has(subjects, subject) THEN Get(subjects, subject) ELSE <<>>
         IN AppendScores(Put(subjects, subject, Append(so_far, scores[1].v)), Tail(scores))

\* lines 112-117: subject -> the scores of the students that have it
RECURSIVE SubjectScores(_, _)
SubjectScores(student_data, subjects) ==
    IF student_data = <<>> THEN subjects
    ELSE SubjectScores(Tail(student_data), AppendScores(subjects, student_data[1].v))

\* line 119: {subject: np.mean(scores)}
SubjectAverages(student_data) ==
    LET subjects == SubjectScores(student_data, <<>>) IN
    [i \in 1..Len(subjects) |->
        Item(subjects[i].k, Frac(SumSeq(subjects[i].v), Len(subjects[i].v)))]

\* lines 135-146: the entry of one subject
AverageComparison(current_avg, previous_avg) ==
    LET change == Frac(current_avg.num * previous_avg.den
                            - previous_avg.num * current_avg.den,
                       current_avg.den * previous_avg.den)
    IN [current_average |-> current_avg,
        previous_average |-> previous_avg,
        change |-> change,
        percentage_change |->
            IF previous_avg.num > 0
            THEN Frac(change.num * 100 * previous_avg.den, change.den * previous_avg.num)
            ELSE Frac(0, 1),
        trend |-> IF change.num > 0 THEN "improved"
                  ELSE IF change.num < 0 THEN "declined" ELSE "stable"]

\* lines 132-146: the subjects of the current averages that have a previous one
RECURSIVE CompareAverages(_, _)
CompareAverages(current_averages, previous_averages) ==
    IF current_averages = <<>> THEN <<>>
    ELSE LET subject == current_averages[1].k
             rest == CompareAverages(Tail(current_averages), previous_averages)
         IN IF Has(previous_averages, subject)
            THEN <<Item(subject, AverageComparison(current_averages[1].v,
                                                   Get(previous_averages, subject)))>>
                 \o rest
            ELSE rest

\* a snapshot without the students that are not in the other one
RECURSIVE OnlyStudentsOf(_, _)
OnlyStudentsOf(student_data, other) ==
    IF student_data = <<>> THEN <<>>
    ELSE (IF Has(other, student_data[1].k) THEN <<student_data[1]>> ELSE <<>>)
         \o OnlyStudentsOf(Tail(student_data), other)

\* the bug of averaging over the students of both snapshots only
SubjectAveragesOverJoined(exams, current_student_data, previous) ==
    IF ~Has(exams, previous) THEN None
    ELSE LET previous_data == Get(exams, previous).student_data IN
         Some(CompareAverages(
                SubjectAverages(OnlyStudentsOf(current_student_data, previous_data)),
                SubjectAverages(OnlyStudentsOf(previous_data, current_student_data))))

CalculateSubjectAveragesComparisonOf(exams, current_student_data, previous) ==
    IF ~Has(exams, previous) THEN None
    ELSE Some(CompareAverages(SubjectAverages(current_student_data),
                              SubjectAverages(Get(exams, previous).student_data)))

(***************************************************************************)
(* HistoricalAnalyzer.get_subject_leaders and get_overall_top_students.    *)
(* A (student, score) pair is the tuple <<student, score>>.  The subjects  *)
(* are iterated as a Python set, in an order that is not fixed: the result *)
(* of get_subject_leaders is kept as the set of its items.                 *)
(***************************************************************************)
\* lines 169-172 and 187-190: the (student, score) pairs of one subject
RECURSIVE ScoresOf(_, _)
ScoresOf(student_data, subject) ==
    IF student_data = <<>> THEN <<>>
    ELSE (IF Has(student_data[1].v, subject)
          THEN <<<<student_data[1].k, Get(student_data[1].v, subject)>>>> ELSE <<>>)
         \o ScoresOf(Tail(student_data), subject)

\* sort(key=lambda x: x[1], reverse=True), then [:n]
TopN(subject_scores, n) ==
    LET sorted == SortDesc(subject_scores, 2) IN
    SubSeq(sorted, 1, IF Len(sorted) < n THEN Len(sorted) ELSE n)

GetSubjectLeadersOf(student_data) ==
    LET all_subjects ==
            UNION {KeySet(student_data[i].v) : i \in 1..Len(student_data)} \ {TotalKey}
    IN {Item(subject, TopN(ScoresOf(student_data, subject), 3)) : subject \in all_subjects}

GetOverallTopStudentsOf(student_data, top_n) ==
    TopN(ScoresOf(student_data, TotalKey), top_n)

(***************************************************************************)
(* HistoricalAnalyzer.get_improvement_insights.  Its argument is what      *)
(* compare_student_progress returned, None or a dict; the result is the    *)
(* empty dict <<>> or one bundle of insights,                              *)
(* <<bundle>>.  most_improved and most_declined are (student, change)      *)
(* tuples.                                                                 *)
(***************************************************************************)
\* the bug of moving on at a tie: the last student with the largest change
LastWithMax(progress) ==
    LET i == CHOOSE i \in 1..Len(progress) :
                /\ \A j \in 1..Len(progress) :
                        progress[j].v.total_change <= progress[i].v.total_change
                /\ \A j \in (i + 1)..Len(progress) :
                        progress[j].v.total_change < progress[i].v.total_change
    IN <<progress[i].k, progress[i].v.total_change>>

\* lines 259-261: updated on a strictly larger change, so the first student
\* with the largest change
FirstWithMax(progress) ==
    LET i == CHOOSE i \in 1..Len(progress) :
                /\ \A j \in 1..Len(progress) :
                        progress[j].v.total_change <= progress[i].v.total_change
                /\ \A j \in 1..(i - 1) :
                        progress[j].v.total_change < progress[i].v.total_change
    IN <<progress[i].k, progress[i].v.total_change>>

\* lines 263-265: the first student with the smallest change
FirstWithMin(progress) ==
    LET i == CHOOSE i \in 1..Len(progress) :
                /\ \A j \in 1..Len(progress) :
                        progress[j].v.total_change >= progress[i].v.total_change
                /\ \A j \in 1..(i - 1) :
                        progress[j].v.total_change > progress[i].v.total_change
    IN <<progress[i].k, progress[i].v.total_change>>

\* the bug of an open band: abs(total_change) < 5
RECURSIVE ConsistentPerformersStrict(_)
ConsistentPerformersStrict(progress) ==
    IF progress = <<>> THEN <<>>
    ELSE (IF progress[1].v.total_change < 5 /\ progress[1].v.total_change > -5
          THEN <<progress[1].k>> ELSE <<>>)
         \o ConsistentPerformersStrict(Tail(progress))

\* lines 268-269: abs(total_change) <= 5
RECURSIVE ConsistentPerformers(_)
ConsistentPerformers(progress) ==
    IF progress = <<>> THEN <<>>
    ELSE (IF progress[1].v.total_change <= 5 /\ progress[1].v.total_change >= -5
          THEN <<progress[1].k>> ELSE <<>>)
         \o ConsistentPerformers(Tail(progress))

RECURSIVE TotalChanges(_)
TotalChanges(progress) ==
    IF progress = <<>> THEN <<>>
    ELSE <<progress[1].v.total_change>> \o TotalChanges(Tail(progress))

\* the bug of using the band of the students, 5, for the class
OverallClassTrendStudentBand(total_changes) ==
    IF total_changes = <<>> THEN "stable"
    ELSE IF SumSeq(total_changes) > 5 * Len(total_changes) THEN "improving"
    ELSE IF SumSeq(total_changes) < -5 * Len(total_changes) THEN "declining"
    ELSE "stable"

\* lines 272-277: the mean of the changes against 2 and -2
OverallClassTrend(total_changes) ==
    IF total_changes = <<>> THEN "stable"
    ELSE IF SumSeq(total_changes) > 2 * Len(total_changes) THEN "improving"
    ELSE IF SumSeq(total_changes) < -2 * Len(total_changes) THEN "declining"
    ELSE "stable"

\* lines 241-279: the bundle for a dict of progress records
InsightsOf(progress) ==
    [most_improved |-> IF progress = <<>> THEN None ELSE Some(FirstWithMax(progress)),
     most_declined |-> IF progress = <<>> THEN None ELSE Some(FirstWithMin(progress)),
     consistent_performers |-> ConsistentPerformers(progress),
     subject_improvements |-> <<>>,
     overall_class_trend |-> OverallClassTrend(TotalChanges(progress))]

\* the bug of no early return for an empty or missing progress_data
GetImprovementInsightsUnguarded(returned) ==
    IF returned = None THEN <<InsightsOf(<<>>)>>
    ELSE <<InsightsOf(returned[1])>>

\* lines 238-239: if not progress_data: return {}
GetImprovementInsightsOf(returned) ==
    IF returned = None \/ returned[1] = <<>> THEN <<>>
    ELSE <<InsightsOf(returned[1])>>

(***************************************************************************)
(* DatabaseManager.  The table users is a sequence of [username, email]    *)
(* rows, and the id of a user is the position of the row; the tables       *)
(* exam_sessions and student_data are one sequence of [user_id,            *)
(* student_data] records, the id of an exam session is the position of     *)
(* its record, and student_data holds the rows saved for the session, in   *)
(* the order they were inserted.                                           *)
(***************************************************************************)
\* get_user_by_username, lines 124-131: None for no such user
GetUserByUsername(us, username) ==
    IF \E i \in 1..Len(us) : us[i].username = username
    THEN LET i == CHOOSE j \in 1..Len(us) : us[j].username = username
         IN Some([id |-> i, username |-> us[i].username, email |-> us[i].email])
    ELSE None

\* create_user, lines 104-122; username and email are unique (lines 19-20),
\* and the commit raises for a duplicate
CanCreateUser(us, username, email) ==
    \A i \in 1..Len(us) : us[i].username # username /\ us[i].email # email

CreateUser(us, username, email) == Append(us, [username |-> username, email |-> email])

\* create_exam_session, lines 147-169
CreateExamSessionOf(sessions, user_id) ==
    Append(sessions, [user_id |-> user_id, student_data |-> <<>>])

\* get_exam_session, lines 183-191: None for no such session
GetExamSession(sessions, session_id) ==
    IF session_id \in 1..Len(sessions) THEN Some(sessions[session_id]) ELSE None

\* lines 201-208: one row per student, Total apart from the subjects
StudentRows(students_data) ==
    [i \in 1..Len(students_data) |->
        [student_name |-> students_data[i].k,
         total_score |-> IF Has(students_data[i].v, TotalKey)
                         THEN Get(students_data[i].v, TotalKey) ELSE 0,
         subject_scores |-> WithoutKey(students_data[i].v, TotalKey)]]

\* save_student_data, lines 193-216: the rows of the session are replaced
SaveStudentData(sessions, exam_session_id, students_data) ==
    [sessions EXCEPT ![exam_session_id].student_data = StudentRows(students_data)]

\* get_student_data, lines 218-236: {'Total': total_score, **subject_scores}
GetStudentData(sessions, exam_session_id) ==
    LET students == sessions[exam_session_id].student_data IN
    [i \in 1..Len(students) |->
        Item(students[i].student_name,
             <<Item(TotalKey, students[i].total_score)>> \o students[i].subject_scores)]

(***************************************************************************)
(* UserManager: what a call returns is the pair of its success and its     *)
(* message.                                                                *)
(***************************************************************************)
Returned(ok, text) == Some([ok |-> ok, text |-> text])

(***************************************************************************)
(* Each specification drives one component; the others stay as they are    *)
(* before their first call.                                                *)
(***************************************************************************)
NoGrades == [g \in Grades |-> 0]

RankIdle ==
    /\ marks = <<>>
    /\ student_names = <<>>
    /\ max_marks = 100
    /\ rankings = <<>>
    /\ grade_distribution = NoGrades

AnalyzeIdle ==
    /\ analysis_data = <<>>
    /\ analysis_results = NotCalled

ConsolidateIdle ==
    /\ sheets_data = <<>>
    /\ consolidated_names = <<>>

SimilarityIdle ==
    /\ given_name1 = <<>>
    /\ given_name2 = <<>>
    /\ similarity = Frac(0, 1)

OverallIdle ==
    /\ subject_data = <<>>
    /\ overall_ranking = <<>>

InsightIdle ==
    /\ subject_leaders = {}
    /\ top_students = <<>>
    /\ insights = <<>>
    /\ avg_comparison = None

SummaryIdle == class_summary = <<>>

StoreIdle == stored_exams = <<>>

\* UserManager.__init__, lines 11-22, on an empty database
UserIdle ==
    /\ users = <<>>
    /\ exam_sessions = <<>>
    /\ user_authenticated = FALSE
    /\ current_user = <<>>
    /\ current_session_id = <<>>
    /\ message = <<>>

HistoryIdle ==
    /\ historical_exams = <<>>
    /\ multi_sheet_data = <<>>
    /\ exam_name = ""
    /\ previous_exam_name = ""
    /\ progress_data = None

(***************************************************************************)
(* The ranking session: marks are entered, then ranked.                    *)
(***************************************************************************)
InitRank ==
    /\ pc = "input"
    /\ ConsolidateIdle
    /\ SimilarityIdle
    /\ OverallIdle
    /\ InsightIdle
    /\ SummaryIdle
    /\ StoreIdle
    /\ UserIdle
    /\ AnalyzeIdle
    /\ HistoryIdle
    /\ marks \in SeqsUpTo(0..MaxRankMark, MaxRankLen)
    /\ student_names \in SeqsUpTo({"", "Ann", "Bob"}, MaxNamesLen)
    /\ max_marks \in {4}
    /\ rankings = <<>>
    /\ grade_distribution = NoGrades

InitGrade ==
    /\ pc = "input"
    /\ ConsolidateIdle
    /\ SimilarityIdle
    /\ OverallIdle
    /\ InsightIdle
    /\ SummaryIdle
    /\ StoreIdle
    /\ UserIdle
    /\ AnalyzeIdle
    /\ HistoryIdle
    /\ marks \in SeqsUpTo(0..MaxGradeMark, MaxGradeLen)
    /\ student_names = <<>>
    /\ max_marks \in {10, 20}
    /\ rankings = <<>>
    /\ grade_distribution = NoGrades

\* calculate_rankings(marks, student_names, max_marks)
CalculateRankings ==
    /\ pc = "input"
    /\ rankings' = CalculateRankingsOf(marks, student_names, max_marks)
    /\ pc' = "ranked"
    /\ UNCHANGED <<marks, student_names, max_marks, grade_distribution>>
    /\ UNCHANGED <<analyzeVars, historyVars, consolidateVars, similarityVars, overallVars, insightVars>>
    /\ UNCHANGED <<summaryVars, storeVars, userVars>>

\* get_class_performance_summary(rankings), called on what calculate_rankings
\* returned (app.py lines 926-943)
GetClassPerformanceSummary ==
    /\ pc = "ranked"
    /\ class_summary' = GetClassPerformanceSummaryOf(rankings)
    /\ pc' = "summarised"
    /\ UNCHANGED <<rankVars, analyzeVars, historyVars, consolidateVars, similarityVars,
                   overallVars, insightVars, storeVars, userVars>>

\* calculate_grade_distribution(marks, max_marks); an empty list divides by
\* zero at line 152 and the call raises
CalculateGradeDistribution ==
    /\ pc = "input"
    /\ IF marks = <<>>
       THEN /\ pc' = "error"
            /\ UNCHANGED grade_distribution
       ELSE /\ pc' = "graded"
            /\ grade_distribution' = CalculateGradeDistributionOf(marks, max_marks)
    /\ UNCHANGED <<marks, student_names, max_marks, rankings>>
    /\ UNCHANGED <<analyzeVars, historyVars, consolidateVars, similarityVars, overallVars, insightVars>>
    /\ UNCHANGED <<summaryVars, storeVars, userVars>>

\* create_overall_ranking(subject_data, student_names)
CreateOverallRanking ==
    /\ overall_ranking' = CreateOverallRankingOf(subject_data, student_names)
    /\ pc' = "overall"
    /\ UNCHANGED <<subject_data, rankVars, analyzeVars, historyVars, consolidateVars,
                   similarityVars, insightVars>>
    /\ UNCHANGED <<summaryVars, storeVars, userVars>>

NextRank ==
    \/ CalculateRankings
    \/ GetClassPerformanceSummary
    \/ CalculateGradeDistribution
    \/ CreateOverallRanking

SpecRank == InitRank /\ [][NextRank]_vars
SpecGrade == InitGrade /\ [][NextRank]_vars

(***************************************************************************)
(* The single-sheet analysis: marks are entered, then analyzed.            *)
(***************************************************************************)
InitAnalyze ==
    /\ pc = "input"
    /\ ConsolidateIdle
    /\ SimilarityIdle
    /\ OverallIdle
    /\ InsightIdle
    /\ SummaryIdle
    /\ StoreIdle
    /\ UserIdle
    /\ RankIdle
    /\ HistoryIdle
    /\ analysis_data \in SeqsUpTo({NaN} \cup {Num(x) : x \in 0..MaxAnalyzeMark}, MaxAnalyzeLen)
    /\ analysis_results = NotCalled

\* perform_single_sheet_analysis: results = analyzer.analyze(marks)
Analyze ==
    /\ pc = "input"
    /\ analysis_results' = AnalyzeOf(analysis_data)
    /\ pc' = IF analysis_results'.error = "" THEN "analyzed" ELSE "error"
    /\ UNCHANGED <<analysis_data, rankVars, historyVars, consolidateVars, similarityVars, overallVars, insightVars>>
    /\ UNCHANGED <<summaryVars, storeVars, userVars>>

NextAnalyze == Analyze

SpecAnalyze == InitAnalyze /\ [][NextAnalyze]_vars

(***************************************************************************)
(* The multi-sheet session.  A snapshot is what consolidate_student_data   *)
(* returns (or what load_exam_session reads back): for each student the    *)
(* subject scores in sheet order, then Total, their sum.  An earlier exam  *)
(* may be in the history; the current snapshot is analysed, which stores   *)
(* it under the current exam name, and compared with a stored exam.        *)
(***************************************************************************)
Ann == <<"A", "n", "n">>
Bob == <<"B", "o", "b">>
StudentPool == {Ann, Bob}
ExamNames == {"Mid", "Final"}
MathScores == {-5, 0, 6}
SciScores == {None, Some(6)}

StudentRecord(math, sci) ==
    LET subjects == <<Item(Title(<<"m", "a", "t", "h">>), math)>> \o
                    (IF sci = None THEN <<>> ELSE <<Item(Title(<<"s", "c", "i">>), sci[1])>>)
    IN WithTotal(subjects)

StudentRecords == {StudentRecord(m, sc) : m \in MathScores, sc \in SciScores}

StudentOrders ==
    {o \in SeqsUpTo(StudentPool, Cardinality(StudentPool)) :
        \A i, j \in 1..Len(o) : i # j => o[i] # o[j]}

Snapshots ==
    UNION {{[i \in 1..Len(o) |-> Item(o[i], rs[i])] : rs \in [1..Len(o) -> StudentRecords]} :
            o \in StudentOrders}

InitHistory ==
    /\ pc = "ready"
    /\ ConsolidateIdle
    /\ SimilarityIdle
    /\ OverallIdle
    /\ InsightIdle
    /\ SummaryIdle
    /\ StoreIdle
    /\ UserIdle
    /\ RankIdle
    /\ AnalyzeIdle
    /\ historical_exams \in
          {<<>>} \cup {StoreExamDataOf(<<>>, "Mid", sd) : sd \in Snapshots}
    /\ multi_sheet_data \in Snapshots
    /\ exam_name \in ExamNames
    /\ previous_exam_name = ""
    /\ progress_data = None

\* perform_multi_sheet_analysis, lines 478-499: the ranking, the subject
\* leaders and the top three of the current snapshot, then the snapshot
\* stored under the current exam name, and saved to the current exam
\* session of an authenticated user
PerformMultiSheetAnalysis ==
    /\ rankings' = CreateComprehensiveRankingOf(multi_sheet_data)
    /\ subject_leaders' = GetSubjectLeadersOf(multi_sheet_data)
    /\ top_students' = GetOverallTopStudentsOf(multi_sheet_data, 3)
    /\ multi_sheet_data' = SnapshotAfterCall(multi_sheet_data)
    /\ historical_exams' = StoreExamDataOf(historical_exams, exam_name, multi_sheet_data')
    /\ pc' = "analysed"
    /\ UNCHANGED <<marks, student_names, max_marks, grade_distribution, analyzeVars,
                   exam_name, previous_exam_name, progress_data,
                   insights, avg_comparison,
                   consolidateVars, similarityVars, overallVars>>
    /\ IF user_authenticated /\ current_session_id # None
       THEN /\ exam_sessions' =
                  SaveStudentData(exam_sessions, current_session_id[1], multi_sheet_data)
            /\ message' = Returned(TRUE, "Session data saved successfully")
       ELSE UNCHANGED <<exam_sessions, message>>
    /\ UNCHANGED <<summaryVars, storeVars, users, user_authenticated, current_user,
                   current_session_id>>

\* display_historical_comparison(previous_exam_name), lines 698-747:
\* compare_student_progress, and for a result that is neither None nor
\* empty get_improvement_insights and calculate_subject_averages_comparison
CompareStudentProgress(previous) ==
    /\ progress_data' =
          CompareStudentProgressOf(historical_exams, multi_sheet_data, previous)
    /\ previous_exam_name' = previous
    /\ IF progress_data' # None /\ progress_data'[1] # <<>>
       THEN /\ insights' = GetImprovementInsightsOf(progress_data')
            /\ avg_comparison' =
                  CalculateSubjectAveragesComparisonOf(historical_exams, multi_sheet_data,
                                                       previous)
       ELSE UNCHANGED <<insights, avg_comparison>>
    /\ multi_sheet_data' = SnapshotAfterCall(multi_sheet_data)
    /\ historical_exams' = ExamsAfterCall(historical_exams, previous)
    /\ pc' = "compared"
    /\ UNCHANGED <<rankVars, analyzeVars, exam_name,
                   subject_leaders, top_students,
                   consolidateVars, similarityVars, overallVars>>
    /\ UNCHANGED <<summaryVars, storeVars, userVars>>

\* get_improvement_insights(progress_data), on whatever the last comparison
\* returned
GetImprovementInsights ==
    /\ insights' = GetImprovementInsightsOf(progress_data)
    /\ pc' = "insights"
    /\ UNCHANGED <<rankVars, analyzeVars, historyVars, avg_comparison,
                   subject_leaders, top_students,
                   consolidateVars, similarityVars, overallVars>>
    /\ UNCHANGED <<summaryVars, storeVars, userVars>>

NextHistory ==
    \/ PerformMultiSheetAnalysis
    \/ \E previous \in ExamNames : CompareStudentProgress(previous)
    \/ GetImprovementInsights

SpecHistory == InitHistory /\ [][NextHistory]_vars

(***************************************************************************)
(* The upload of a multi-sheet file: process_multi_sheet_data consolidates *)
(* the sheets, and handle_file_upload keeps the result as the current      *)
(* snapshot.                                                               *)
(***************************************************************************)
SheetNamePool == {<<"m", "a", "t", "h">>, <<"s", "c", "i">>, <<"t", "o", "t", "a", "l">>}
Jo == <<"j", "o">>
On == <<"o", "n">>
Jon == <<"j", "o", "n">>
JoCap == <<"J", "o">>
NameCells == {NaNName, Name(Jo), Name(On), Name(Jon), Name(JoCap)}
ScoreCells == {NaN, Num(70), Num(80)}

SheetOrders ==
    {o \in SeqsUpTo(SheetNamePool, MaxSheets) :
        \A i, j \in 1..Len(o) : i # j => o[i] # o[j]}

\* where each sheet of order ends in a list of n rows
Cuts(order, n) ==
    {c \in [1..Len(order) -> 0..n] :
        /\ \A i \in 1..(Len(order) - 1) : c[i] <= c[i + 1]
        /\ IF order = <<>> THEN n = 0 ELSE c[Len(order)] = n}

\* the sheets named as in order, holding the rows cut at c
SheetsOf(order, rows, c) ==
    [i \in 1..Len(order) |->
        Item(order[i], SubSeq(rows, (IF i = 1 THEN 0 ELSE c[i - 1]) + 1, c[i]))]

InitConsolidate ==
    /\ pc = "uploaded"
    /\ SimilarityIdle
    /\ OverallIdle
    /\ InsightIdle
    /\ SummaryIdle
    /\ StoreIdle
    /\ UserIdle
    /\ RankIdle
    /\ AnalyzeIdle
    /\ HistoryIdle
    /\ \E order \in SheetOrders, n \in 0..MaxRows :
         \E rows \in [1..n -> [name : NameCells, score : ScoreCells]],
            c \in Cuts(order, n) :
             sheets_data = SheetsOf(order, rows, c)
    /\ consolidated_names = <<>>

\* process_multi_sheet_data, handle_file_upload lines 261-267
Consolidate ==
    /\ pc = "uploaded"
    /\ consolidated_names' = ConsolidatedNames(sheets_data)
    /\ multi_sheet_data' = ConsolidateStudentData(sheets_data)
    /\ pc' = "consolidated"
    /\ UNCHANGED <<rankVars, analyzeVars, historical_exams, exam_name,
                   previous_exam_name, progress_data, sheets_data>>
    /\ UNCHANGED <<similarityVars, overallVars, insightVars>>
    /\ UNCHANGED <<summaryVars, storeVars, userVars>>

NextConsolidate == Consolidate

SpecConsolidate == InitConsolidate /\ [][NextConsolidate]_vars

(***************************************************************************)
(* The three rankings side by side: a session that holds a mark list, a    *)
(* dict of subject marks and a snapshot, each possibly empty.              *)
(***************************************************************************)
OverallMarks == {None, Some(1)}
SubjectNames == <<Title(<<"m", "a", "t", "h">>), Title(<<"s", "c", "i">>)>>
SubjectDataPool ==
    UNION {{[i \in 1..n |-> Item(SubjectNames[i], ms[i])] :
                ms \in [1..n -> SeqsUpTo(OverallMarks, MaxOverallLen)]} :
           n \in 0..Len(SubjectNames)}

InitRankings ==
    /\ pc = "input"
    /\ AnalyzeIdle
    /\ ConsolidateIdle
    /\ SimilarityIdle
    /\ InsightIdle
    /\ SummaryIdle
    /\ StoreIdle
    /\ UserIdle
    /\ marks \in SeqsUpTo(0..MaxRankMark, 1)
    /\ student_names \in SeqsUpTo({"", "Ann"}, 1)
    /\ max_marks = 4
    /\ rankings = <<>>
    /\ grade_distribution = NoGrades
    /\ subject_data \in SubjectDataPool
    /\ overall_ranking = <<>>
    /\ historical_exams = <<>>
    /\ multi_sheet_data \in {sd \in Snapshots : Len(sd) <= 1}
    /\ exam_name = "Final"
    /\ previous_exam_name = ""
    /\ progress_data = None

NextRankings ==
    \/ NextRank
    \/ PerformMultiSheetAnalysis

SpecRankings == InitRankings /\ [][NextRankings]_vars

(***************************************************************************)
(* _calculate_name_similarity applied to two names: every name of at most  *)
(* MaxNameLen characters over a small alphabet with both cases and the     *)
(* blank, and a few longer names.                                          *)
(***************************************************************************)
NameAlphabet == {"a", "b", "A", " "}
Alice == <<"A", "l", "i", "c", "e">>
AliceLower == <<"a", "l", "i", "c", "e">>
JonCap == <<"J", "o", "n">>
JonathanSmith == <<"J", "o", "n", "a", "t", "h", "a", "n", " ", "S", "m", "i", "t", "h">>
Johns == <<"j", "o", "h", "n", "s">>
Johnt == <<"j", "o", "h", "n", "t">>
NamePool ==
    SeqsUpTo(NameAlphabet, MaxNameLen)
        \cup {Alice, AliceLower, JonCap, JonathanSmith, Johns, Johnt}

InitSimilarity ==
    /\ pc = "input"
    /\ RankIdle
    /\ AnalyzeIdle
    /\ HistoryIdle
    /\ ConsolidateIdle
    /\ OverallIdle
    /\ InsightIdle
    /\ SummaryIdle
    /\ StoreIdle
    /\ UserIdle
    /\ given_name1 \in NamePool
    /\ given_name2 \in NamePool
    /\ similarity = Frac(0, 1)

\* self._calculate_name_similarity(name, other_name)
NameSimilarity ==
    /\ pc = "input"
    /\ similarity' = CalculateNameSimilarity(given_name1, given_name2)
    /\ pc' = "similarity"
    /\ UNCHANGED <<given_name1, given_name2, rankVars, analyzeVars, historyVars,
                   consolidateVars, overallVars, insightVars>>
    /\ UNCHANGED <<summaryVars, storeVars, userVars>>

NextSimilarity == NameSimilarity

SpecSimilarity == InitSimilarity /\ [][NextSimilarity]_vars

(***************************************************************************)
(* The user session: users log in and out, create and load exam sessions,  *)
(* upload sheets, analyse them and save the snapshot.                      *)
(***************************************************************************)
Usernames == {"alice", "bob"}
Emails == {"a@x", "b@x"}

\* workbooks of two sheets: a workbook of one sheet is not consolidated
\* (data_processor.py lines 70-71 and 277-279)
UploadRow(score) == [name |-> Name(Jo), score |-> Num(score)]
Workbook(math) ==
    <<Item(<<"m", "a", "t", "h">>, <<UploadRow(math)>>),
      Item(<<"s", "c", "i">>, <<UploadRow(80)>>)>>
UploadPool == {Workbook(70), Workbook(80)}

InitUsers ==
    /\ pc = "start"
    /\ RankIdle
    /\ AnalyzeIdle
    /\ ConsolidateIdle
    /\ SimilarityIdle
    /\ OverallIdle
    /\ InsightIdle
    /\ SummaryIdle
    /\ StoreIdle
    /\ UserIdle
    /\ historical_exams = <<>>
    /\ multi_sheet_data = <<>>
    /\ exam_name = "Final"
    /\ previous_exam_name = ""
    /\ progress_data = None

\* authenticate_user(username, email, ...), lines 28-57
AuthenticateUser(username, email) ==
    /\ IF GetUserByUsername(users, username) = None /\ ~CanCreateUser(users, username, email)
       THEN /\ message' = Returned(FALSE, "Authentication failed")
            /\ UNCHANGED <<users, user_authenticated, current_user>>
       ELSE /\ users' = IF GetUserByUsername(users, username) = None
                        THEN CreateUser(users, username, email) ELSE users
            /\ user_authenticated' = TRUE
            /\ current_user' = GetUserByUsername(users', username)
            /\ message' = Returned(TRUE, "Authentication successful")
    /\ pc' = "authenticate"
    /\ UNCHANGED <<exam_sessions, current_session_id>>
    /\ UNCHANGED <<rankVars, analyzeVars, historyVars, consolidateVars, similarityVars,
                   overallVars, insightVars, summaryVars, storeVars>>

\* logout_user, lines 59-64
LogoutUser ==
    /\ user_authenticated' = FALSE
    /\ current_user' = None
    /\ current_session_id' = None
    /\ pc' = "logout"
    /\ UNCHANGED <<users, exam_sessions, message>>
    /\ UNCHANGED <<rankVars, analyzeVars, historyVars, consolidateVars, similarityVars,
                   overallVars, insightVars, summaryVars, storeVars>>

\* create_exam_session, lines 74-89
CreateExamSessionCall ==
    /\ Len(exam_sessions) < MaxExamSessions
    /\ IF ~user_authenticated
       THEN /\ message' = Returned(FALSE, "User not authenticated")
            /\ UNCHANGED <<exam_sessions, current_session_id>>
       ELSE /\ exam_sessions' = CreateExamSessionOf(exam_sessions, current_user[1].id)
            /\ current_session_id' = Some(Len(exam_sessions'))
            /\ message' = Returned(TRUE, "Exam session created successfully")

CreateExamSession ==
    /\ CreateExamSessionCall
    /\ pc' = "create"
    /\ UNCHANGED <<users, user_authenticated, current_user>>
    /\ UNCHANGED <<rankVars, analyzeVars, historyVars, consolidateVars, similarityVars,
                   overallVars, insightVars, summaryVars, storeVars>>

\* load_exam_session(session_id), lines 91-125; without a current user line
\* 99 raises, and the call returns its failure
LoadExamSession(session_id) ==
    /\ LET exam_session == GetExamSession(exam_sessions, session_id) IN
       IF exam_session = None
       THEN /\ message' = Returned(FALSE, "Exam session not found")
            /\ UNCHANGED <<current_session_id, multi_sheet_data>>
       ELSE IF current_user = None
       THEN /\ message' = Returned(FALSE, "Failed to load exam session")
            /\ UNCHANGED <<current_session_id, multi_sheet_data>>
       ELSE IF exam_session[1].user_id # current_user[1].id
       THEN /\ message' = Returned(FALSE, "Access denied")
            /\ UNCHANGED <<current_session_id, multi_sheet_data>>
       ELSE /\ current_session_id' = Some(session_id)
            /\ multi_sheet_data' =
                  IF GetStudentData(exam_sessions, session_id) # <<>>
                  THEN GetStudentData(exam_sessions, session_id)
                  ELSE multi_sheet_data
            /\ message' = Returned(TRUE, "Exam session loaded successfully")
    /\ pc' = "load"
    /\ UNCHANGED <<users, exam_sessions, user_authenticated, current_user>>
    /\ UNCHANGED <<historical_exams, exam_name, previous_exam_name, progress_data>>
    /\ UNCHANGED <<rankVars, analyzeVars, consolidateVars, similarityVars,
                   overallVars, insightVars, summaryVars, storeVars>>

\* save_current_session_data(st.session_state.multi_sheet_data), lines 127-138
SaveCurrentSessionData ==
    /\ IF current_session_id = None
       THEN /\ message' = Returned(FALSE, "No active session")
            /\ UNCHANGED exam_sessions
       ELSE /\ exam_sessions' =
                  SaveStudentData(exam_sessions, current_session_id[1], multi_sheet_data)
            /\ message' = Returned(TRUE, "Session data saved successfully")
    /\ pc' = "save"
    /\ UNCHANGED <<users, user_authenticated, current_user, current_session_id>>
    /\ UNCHANGED <<rankVars, analyzeVars, historyVars, consolidateVars, similarityVars,
                   overallVars, insightVars, summaryVars, storeVars>>

\* handle_file_upload, lines 254-267: the sheets of the file are consolidated
\* and kept as the current snapshot
HandleFileUpload(sheets) ==
    /\ sheets_data' = sheets
    /\ consolidated_names' = ConsolidatedNames(sheets)
    /\ multi_sheet_data' = ConsolidateStudentData(sheets)
    /\ pc' = "upload"
    /\ UNCHANGED <<historical_exams, exam_name, previous_exam_name, progress_data>>
    /\ UNCHANGED <<rankVars, analyzeVars, similarityVars, overallVars, insightVars,
                   summaryVars, storeVars, userVars>>

NextUsers ==
    \/ \E username \in Usernames, email \in Emails : AuthenticateUser(username, email)
    \/ LogoutUser
    \/ CreateExamSession
    \/ \E session_id \in 1..MaxExamSessions : LoadExamSession(session_id)
    \/ SaveCurrentSessionData
    \/ \E sheets \in UploadPool : HandleFileUpload(sheets)
    \/ PerformMultiSheetAnalysis

SpecUsers == InitUsers /\ [][NextUsers]_vars

(***************************************************************************)
(* The exam history: exam names are entered, sheets uploaded and analysed, *)
(* the stored exams listed and compared with.                              *)
(***************************************************************************)
ClassNames == {"", "10A"}

InitStore ==
    /\ pc = "start"
    /\ RankIdle
    /\ AnalyzeIdle
    /\ ConsolidateIdle
    /\ SimilarityIdle
    /\ OverallIdle
    /\ InsightIdle
    /\ SummaryIdle
    /\ StoreIdle
    /\ UserIdle
    /\ historical_exams = <<>>
    /\ multi_sheet_data = <<>>
    /\ exam_name \in ExamNames
    /\ previous_exam_name = ""
    /\ progress_data = None

\* handle_student_info, lines 154-221, for the exam name and the class name
\* entered (no student names, no subjects): student_info is set, and an
\* exam session is created when both names are given and no session is
\* current
HandleStudentInfo(name, class_name) ==
    /\ exam_name' = name
    /\ IF name # "" /\ class_name # "" /\ current_session_id = None
       THEN CreateExamSessionCall
       ELSE UNCHANGED <<exam_sessions, current_session_id, message>>
    /\ pc' = "info"
    /\ UNCHANGED <<users, user_authenticated, current_user>>
    /\ UNCHANGED <<historical_exams, multi_sheet_data, previous_exam_name, progress_data>>
    /\ UNCHANGED <<rankVars, analyzeVars, consolidateVars, similarityVars,
                   overallVars, insightVars, summaryVars, storeVars>>

\* get_stored_exams(), app.py line 553
GetStoredExams ==
    /\ stored_exams' = GetStoredExamsOf(historical_exams)
    /\ pc' = "listed"
    /\ UNCHANGED <<rankVars, analyzeVars, historyVars, consolidateVars, similarityVars,
                   overallVars, insightVars, summaryVars, userVars>>

NextStore ==
    \/ \E name \in ExamNames, class_name \in ClassNames : HandleStudentInfo(name, class_name)
    \/ \E sheets \in UploadPool : HandleFileUpload(sheets)
    \/ PerformMultiSheetAnalysis
    \/ GetStoredExams
    \/ \E previous \in ExamNames : CompareStudentProgress(previous)

SpecStore == InitStore /\ [][NextStore]_vars

(***************************************************************************)
(* C1: calculate_rankings is competition ranking: every entry's rank is 1  *)
(* plus the number of entries with a strictly greater score.               *)
(***************************************************************************)
C1_CompetitionRanking ==
    pc = "ranked" =>
        /\ Len(rankings) = Len(marks)
        /\ \A i \in 1..Len(rankings) :
              rankings[i].rank =
                1 + Cardinality({j \in 1..Len(rankings) :
                                    rankings[j].score > rankings[i].score})

\* scores [s, s, t] with s > t are ranked [1, 1, 3]
C1_Witness ==
    /\ pc = "ranked"
    /\ Len(rankings) = 3
    /\ rankings[1].score = rankings[2].score
    /\ rankings[2].score > rankings[3].score
    /\ <<rankings[1].rank, rankings[2].rank, rankings[3].rank>> = <<1, 1, 3>>

(***************************************************************************)
(* C3: the letter grade is the band of the percentage of max_marks, each   *)
(* band including its lower edge: >=95 A+, >=85 A, >=75 B+, >=65 B,        *)
(* >=55 C+, >=45 C, >=35 D, otherwise F; every mark gets exactly one grade.*)
(***************************************************************************)
BandLow == [g \in Grades |->
    CASE g = "A+" -> 95 [] g = "A" -> 85 [] g = "B+" -> 75 [] g = "B" -> 65
      [] g = "C+" -> 55 [] g = "C" -> 45 [] g = "D" -> 35 [] OTHER -> -1]

\* the band edges strictly above a grade's own lower edge
HigherEdges(g) == {BandLow[h] : h \in {h \in Grades : BandLow[h] > BandLow[g]}}

InBand(mark, maxm, g) ==
    /\ g = "F" \/ mark * 100 >= BandLow[g] * maxm
    /\ \A e \in HigherEdges(g) : mark * 100 < e * maxm

C3_GradeBands ==
    /\ pc = "ranked" =>
          \A i \in 1..Len(rankings) :
              /\ rankings[i].grade \in Grades
              /\ InBand(rankings[i].score, max_marks, rankings[i].grade)
    /\ pc = "graded" =>
          \A g \in Grades :
              grade_distribution[g] =
                Cardinality({i \in 1..Len(marks) : InBand(marks[i], max_marks, g)})

\* a mark exactly on the edge of a band is given that band, for every edge
C3_Witness ==
    /\ pc = "ranked"
    /\ Len(rankings) = 2
    /\ rankings[1].score * 100 = 95 * max_marks /\ rankings[1].grade = "A+"
    /\ rankings[2].score * 100 = 35 * max_marks /\ rankings[2].grade = "D"

(***************************************************************************)
(* C9: analyze raises when the input is empty or holds nothing but NaN, and*)
(* otherwise returns a result whose count is the number of non-NaN entries.*)
(***************************************************************************)
NonNaN(data) == {i \in 1..Len(data) : ~data[i].nan}

C9_EmptyRaises ==
    pc \in {"analyzed", "error"} =>
        /\ analysis_results # NotCalled
        /\ (analysis_results.error # "") <=> (NonNaN(analysis_data) = {})
        /\ analysis_results.error = "" =>
              /\ analysis_results.count = Cardinality(NonNaN(analysis_data))
              /\ analysis_results.count > 0

\* a non-empty input of NaN only: the call raised
C9_Witness ==
    /\ pc = "error"
    /\ Len(analysis_data) >= 2
    /\ NonNaN(analysis_data) = {}
    /\ analysis_results.error = "No valid marks found"

(***************************************************************************)
(* C10: a score is an outlier exactly when it is strictly below            *)
(* Q1 - 1.5 IQR or strictly above Q3 + 1.5 IQR; a score on a fence is not; *)
(* outlier_count is the number of outliers.                                *)
(***************************************************************************)
\* is x strictly outside the fences of the result r?  8x against 8 times the
\* fences, which are 8 Q1 - 12 IQR and 8 Q3 + 12 IQR
StrictlyOutside(x, r) ==
    \/ 8 * x < 2 * r.q1x4 - 3 * r.iqr4
    \/ 8 * x > 2 * r.q3x4 + 3 * r.iqr4

C10_Outliers ==
    pc = "analyzed" =>
        LET r == analysis_results
            clean == {i \in NonNaN(analysis_data) : TRUE}
        IN /\ r.iqr4 = r.q3x4 - r.q1x4
           /\ \A x \in 0..MaxAnalyzeMark :
                 Occurrences(r.outliers, x) =
                    IF StrictlyOutside(x, r)
                    THEN Cardinality({i \in clean : analysis_data[i].v = x})
                    ELSE 0
           /\ r.outlier_count = Len(r.outliers)

\* a score exactly on the upper fence of a sample with a positive IQR
C10_Witness ==
    /\ pc = "analyzed"
    /\ analysis_results.iqr4 > 0
    /\ \E i \in NonNaN(analysis_data) :
          /\ 8 * analysis_data[i].v = analysis_results.upper_bound8
          /\ analysis_data[i].v \notin Range(analysis_results.outliers)

(***************************************************************************)
(* The snapshot the last comparison was made against, and its result.      *)
(***************************************************************************)
PreviousData == Get(historical_exams, previous_exam_name).student_data
Progress == progress_data[1]
Compared == pc = "compared" /\ Has(historical_exams, previous_exam_name)
Joined == KeySet(multi_sheet_data) \cap KeySet(PreviousData)

(***************************************************************************)
(* C2: create_comprehensive_ranking orders the students by descending      *)
(* Total and gives tie-aware ranks: a student's rank is 1 plus the number  *)
(* of students with a strictly greater Total, so equal Totals share a rank.*)
(***************************************************************************)
C2_TieAwareRanks ==
    pc = "analysed" =>
        /\ Len(rankings) = Len(multi_sheet_data)
        /\ \A i \in 1..Len(rankings) :
              /\ i > 1 => rankings[i - 1].total_score >= rankings[i].total_score
              /\ rankings[i].rank =
                    1 + Cardinality({j \in 1..Len(rankings) :
                                rankings[j].total_score > rankings[i].total_score})

(***************************************************************************)
(* C6: compare_student_progress returns one record for exactly the         *)
(* students whose name is a key of both the current and the stored         *)
(* previous snapshot; the others are left out without an error.            *)
(***************************************************************************)
C6_JoinOnBothSnapshots ==
    Compared =>
        /\ progress_data # None
        /\ KeySet(Progress) = Joined
        /\ Len(Progress) = Cardinality(Joined)
        /\ \A i \in 1..Len(Progress) : Progress[i].v.student_name = Progress[i].k

\* each snapshot has a student the other lacks, and one student is joined
C6_Witness ==
    /\ Compared
    /\ KeySet(multi_sheet_data) \ KeySet(PreviousData) # {}
    /\ Joined # {}
    /\ KeySet(Progress) = Joined
    /\ multi_sheet_data # PreviousData

(***************************************************************************)
(* C7: for every joined student total_change is the current Total minus    *)
(* the previous Total, and overall_trend is "improved" exactly when        *)
(* total_change > 5, "declined" exactly when total_change < -5, "stable"   *)
(* otherwise.                                                              *)
(***************************************************************************)
C7_TotalChangeAndTrend ==
    Compared =>
        \A st \in Joined :
            LET r == Get(Progress, st)
                d == Get(Get(multi_sheet_data, st), TotalKey)
                        - Get(Get(PreviousData, st), TotalKey)
            IN /\ r.total_change = d
               /\ r.overall_trend = "improved" <=> d > 5
               /\ r.overall_trend = "declined" <=> d < -5
               /\ r.overall_trend = "stable" <=> (d >= -5 /\ d <= 5)

\* one student changed by exactly +5 and is stable, another by more than 5
C7_Witness ==
    /\ Compared
    /\ \E a, b \in Joined :
          /\ Get(Progress, a).total_change = 5
          /\ Get(Progress, a).overall_trend = "stable"
          /\ Get(Progress, b).total_change > 5
          /\ Get(Progress, b).overall_trend = "improved"

(***************************************************************************)
(* C8: for every joined student the subjects with an entry are exactly the *)
(* subjects of both records, with change = current - previous.             *)
(***************************************************************************)
SubjectsOfBoth(st) ==
    KeySet(Get(multi_sheet_data, st)) \cap KeySet(Get(PreviousData, st))

SubjectEntriesRight(st) ==
    LET r == Get(Progress, st) IN
    /\ KeySet(r.subjects) = SubjectsOfBoth(st)
    /\ Len(r.subjects) = Cardinality(SubjectsOfBoth(st))
    /\ \A sub \in SubjectsOfBoth(st) :
          LET e == Get(r.subjects, sub) IN
          /\ e.current = Get(Get(multi_sheet_data, st), sub)
          /\ e.previous = Get(Get(PreviousData, st), sub)
          /\ e.change = e.current - e.previous

\* is the fraction f the value change / previous * 100?
IsChangeOverPrevious(f, e) == f.num * e.previous = e.change * 100 * f.den
IsZero(f) == f.num = 0

\* C8 as claimed: percentage_change is change / previous * 100, and 0 when
\* previous = 0
C8_PercentageChangeZeroOnlyAtZero ==
    Compared =>
        \A st \in Joined :
            /\ SubjectEntriesRight(st)
            /\ \A sub \in SubjectsOfBoth(st) :
                  LET e == Get(Get(Progress, st).subjects, sub) IN
                  IF e.previous = 0 THEN IsZero(e.percentage_change)
                  ELSE IsChangeOverPrevious(e.percentage_change, e)

\* C8 as amended: percentage_change is change / previous * 100 when
\* previous > 0, and 0 when previous <= 0
C8_PercentageChange ==
    Compared =>
        \A st \in Joined :
            /\ SubjectEntriesRight(st)
            /\ \A sub \in SubjectsOfBoth(st) :
                  LET e == Get(Get(Progress, st).subjects, sub) IN
                  IF e.previous <= 0 THEN IsZero(e.percentage_change)
                  ELSE IsChangeOverPrevious(e.percentage_change, e)

\* a joined student with a subject of one record only, a subject with a
\* positive previous score that changed, and one with a negative previous score
C8_Witness ==
    /\ Compared
    /\ \E st \in Joined :
          LET r == Get(Progress, st) IN
          /\ KeySet(Get(multi_sheet_data, st)) # KeySet(Get(PreviousData, st))
          /\ \E sub \in KeySet(r.subjects) :
                LET e == Get(r.subjects, sub) IN
                /\ e.previous > 0 /\ e.change # 0
                /\ ~IsZero(e.percentage_change)
          /\ \E sub \in KeySet(r.subjects) :
                LET e == Get(r.subjects, sub) IN
                /\ e.previous < 0 /\ e.change # 0
                /\ IsZero(e.percentage_change)

(***************************************************************************)
(* C4: in every snapshot returned by consolidate_student_data, each        *)
(* student's "Total" is the sum of that student's other subject scores,    *)
(* whatever the sheets are called.                                         *)
(***************************************************************************)
C4_TotalIsSumOfOthers ==
    pc = "consolidated" =>
        \A i \in 1..Len(multi_sheet_data) :
            LET subjects == multi_sheet_data[i].v IN
            /\ Has(subjects, TotalKey)
            /\ Get(subjects, TotalKey) = SumValues(WithoutKey(subjects, TotalKey))

(***************************************************************************)
(* C5: identity resolution.  As claimed: any two distinct raw names whose  *)
(* similarity reaches the threshold map to the same canonical student, in  *)
(* whatever order the names are first seen.                                *)
(***************************************************************************)
Similar(a, b) == FracGEFrac(CalculateNameSimilarity(a, b), SimilarityThreshold)

Canonical(name) == Get(consolidated_names, name)

C5_SimilarNamesShareCanonical ==
    pc = "consolidated" =>
        \A a, b \in Range(AllStudents(sheets_data)) :
            a # b /\ Similar(a, b) => Canonical(a) = Canonical(b)

\* the j-th first-seen name starts a cluster: no earlier cluster took it
RECURSIVE IsAnchor(_, _)
IsAnchor(names, j) ==
    \A i \in 1..(j - 1) : IsAnchor(names, i) => ~Similar(names[i], names[j])

(***************************************************************************)
(* C5, as the clustering does it: a name that starts a cluster and a name  *)
(* similar to it that no earlier cluster took map to the same canonical    *)
(* student; every raw name is mapped.                                      *)
(***************************************************************************)
C5_AnchorSharesCanonical ==
    pc = "consolidated" =>
        LET names == AllStudents(sheets_data) IN
        /\ KeySet(consolidated_names) = Range(names)
        /\ \A j, k \in 1..Len(names) :
               /\ j < k
               /\ IsAnchor(names, j)
               /\ Similar(names[j], names[k])
               /\ \A i \in 1..(j - 1) :
                      IsAnchor(names, i) => ~Similar(names[i], names[k])
               => Canonical(names[j]) = Canonical(names[k])

\* "jo" takes "jon"; "on", similar to "jon" alone, stays by itself
C5_Witness ==
    /\ pc = "consolidated"
    /\ AllStudents(sheets_data) = <<Jo, On, Jon>>
    /\ Canonical(Jo) = Jon
    /\ Canonical(Jon) = Jon
    /\ Canonical(On) = On

(***************************************************************************)
(* C11: for every non-empty score set the result of analyze has            *)
(* min <= median <= max and q1 <= median <= q3, the median being the 50th  *)
(* percentile of the same linear interpolation that gives q1 and q3.       *)
(***************************************************************************)
C11_OrderedQuartiles ==
    pc = "analyzed" =>
        LET r == analysis_results IN
        /\ 2 * r.min <= r.median2 /\ r.median2 <= 2 * r.max
        /\ r.q1x4 <= 2 * r.median2 /\ 2 * r.median2 <= r.q3x4
        /\ 2 * r.median2 = Percentile4(r.marks, 2)
        /\ r.q1x4 = Percentile4(r.marks, 1)
        /\ r.q3x4 = Percentile4(r.marks, 3)
        /\ 4 * r.min <= r.q1x4 /\ r.q3x4 <= 4 * r.max

\* four marks given out of order: every quartile falls strictly between two
\* marks
C11_Witness ==
    /\ pc = "analyzed"
    /\ analysis_results.count = 4
    /\ analysis_results.marks # SortAsc(analysis_results.marks)
    /\ 4 * analysis_results.min < analysis_results.q1x4
    /\ analysis_results.q1x4 < 2 * analysis_results.median2
    /\ 2 * analysis_results.median2 < analysis_results.q3x4
    /\ analysis_results.q3x4 < 4 * analysis_results.max

(***************************************************************************)
(* C12: the mode that analyze reports is a most frequent value when some   *)
(* value occurs at least twice, and None (neither 0 nor an error) when     *)
(* every value occurs once.                                                *)
(***************************************************************************)
C12_ModeOrNone ==
    pc = "analyzed" =>
        LET a == analysis_results.marks
            mode == analysis_results.mode
        IN IF \E x \in Range(a) : Occurrences(a, x) >= 2
           THEN /\ mode # None
                /\ mode[1] \in Range(a)
                /\ \A y \in Range(a) : Occurrences(a, mode[1]) >= Occurrences(a, y)
           ELSE mode = None

\* two values occur twice each, and one of them is reported
C12_Witness ==
    /\ pc = "analyzed"
    /\ analysis_results.mode # None
    /\ \E y \in Range(analysis_results.marks) :
          /\ y # analysis_results.mode[1]
          /\ Occurrences(analysis_results.marks, y) = 2
          /\ Occurrences(analysis_results.marks, analysis_results.mode[1]) = 2

(***************************************************************************)
(* C13: the similarity of two names is 1.0 exactly when the names are      *)
(* equal after trimming and lower-casing; for every other pair it lies in  *)
(* [0, 1).                                                                 *)
(***************************************************************************)
Normalized(name) == Lower(Strip(name))

C13_OneIffEqualNormalized ==
    pc = "similarity" =>
        /\ similarity.den > 0
        /\ IF Normalized(given_name1) = Normalized(given_name2)
           THEN similarity.num = similarity.den
           ELSE 0 <= similarity.num /\ similarity.num < similarity.den

\* "Alice" and "alice"
C13_Witness ==
    /\ pc = "similarity"
    /\ given_name1 = Alice
    /\ given_name2 = AliceLower
    /\ similarity.num = similarity.den

(***************************************************************************)
(* C14: for two names that differ after trimming and lower-casing, the     *)
(* similarity is exactly 0.9 whenever one normalized name is a substring   *)
(* of the other, whichever argument comes first.                           *)
(***************************************************************************)
C14_SubstringIsNineTenths ==
    pc = "similarity" =>
        LET n1 == Normalized(given_name1)
            n2 == Normalized(given_name2)
        IN (n1 # n2 /\ (IsSubstring(n1, n2) \/ IsSubstring(n2, n1)))
              => 10 * similarity.num = 9 * similarity.den

\* "Jonathan Smith" and "Jon": the second name is in the first
C14_Witness ==
    /\ pc = "similarity"
    /\ given_name1 = JonathanSmith
    /\ given_name2 = JonCap
    /\ 10 * similarity.num = 9 * similarity.den

(***************************************************************************)
(* C15: on a non-empty progress mapping get_improvement_insights gives as  *)
(* most_improved the student with the largest total_change and as          *)
(* most_declined the one with the smallest, the first in iteration order   *)
(* at a tie, and as consistent_performers exactly the students with        *)
(* |total_change| <= 5.                                                    *)
(***************************************************************************)
InsightsGiven ==
    /\ pc \in {"compared", "insights"}
    /\ progress_data # None
    /\ Progress # <<>>

Change(i) == Progress[i].v.total_change

C15_Insights ==
    InsightsGiven =>
        /\ insights # <<>>
        /\ \E i \in 1..Len(Progress) :
              /\ insights[1].most_improved = Some(<<Progress[i].k, Change(i)>>)
              /\ \A j \in 1..Len(Progress) : Change(j) <= Change(i)
              /\ \A j \in 1..(i - 1) : Change(j) < Change(i)
        /\ \E i \in 1..Len(Progress) :
              /\ insights[1].most_declined = Some(<<Progress[i].k, Change(i)>>)
              /\ \A j \in 1..Len(Progress) : Change(j) >= Change(i)
              /\ \A j \in 1..(i - 1) : Change(j) > Change(i)
        /\ Range(insights[1].consistent_performers) =
              {Progress[i].k : i \in {j \in 1..Len(Progress) :
                                        Change(j) <= 5 /\ Change(j) >= -5}}
        /\ Len(insights[1].consistent_performers) =
              Cardinality(Range(insights[1].consistent_performers))

\* two students with the same change of exactly 5: the first of them is both
\* the most improved and the most declined, and both are consistent
C15_Witness ==
    /\ InsightsGiven
    /\ Len(Progress) = 2
    /\ Change(1) = 5
    /\ Change(2) = 5
    /\ insights[1].most_improved = Some(<<Progress[1].k, 5>>)
    /\ insights[1].most_declined = Some(<<Progress[1].k, 5>>)
    /\ Len(insights[1].consistent_performers) = 2

(***************************************************************************)
(* C16: calculate_subject_averages_comparison averages each subject over   *)
(* all the students of the current snapshot that have it, and over all the *)
(* students of the previous snapshot that have it, reports their           *)
(* difference for the subjects of both, and sets the trend by the sign of  *)
(* the difference alone.                                                   *)
(***************************************************************************)
Having(student_data, subject) ==
    {i \in 1..Len(student_data) : Has(student_data[i].v, subject)}

SubjectsIn(student_data) ==
    UNION {KeySet(student_data[i].v) : i \in 1..Len(student_data)}

RECURSIVE SumAt(_, _, _)
SumAt(student_data, subject, at) ==
    IF at = {} THEN 0
    ELSE LET i == CHOOSE i \in at : TRUE
         IN Get(student_data[i].v, subject) + SumAt(student_data, subject, at \ {i})

\* is the fraction f the mean of the subject over all students that have it?
IsAverageOf(f, student_data, subject) ==
    /\ f.den > 0
    /\ f.num * Cardinality(Having(student_data, subject)) =
          SumAt(student_data, subject, Having(student_data, subject)) * f.den

AveragesGiven ==
    /\ pc = "compared"
    /\ progress_data # None
    /\ Progress # <<>>

C16_SubjectAverages ==
    AveragesGiven =>
        /\ avg_comparison # None
        /\ KeySet(avg_comparison[1]) = SubjectsIn(multi_sheet_data) \cap SubjectsIn(PreviousData)
        /\ Len(avg_comparison[1]) = Cardinality(KeySet(avg_comparison[1]))
        /\ \A subject \in KeySet(avg_comparison[1]) :
              LET e == Get(avg_comparison[1], subject)
                  c == e.current_average
                  p == e.previous_average
                  d == c.num * p.den - p.num * c.den
              IN /\ IsAverageOf(c, multi_sheet_data, subject)
                 /\ IsAverageOf(p, PreviousData, subject)
                 /\ e.change.den > 0
                 /\ e.change.num * c.den * p.den = d * e.change.den
                 /\ e.trend = "improved" <=> d > 0
                 /\ e.trend = "declined" <=> d < 0
                 /\ e.trend = "stable" <=> d = 0

\* a student of the current snapshot alone counts in the current average:
\* the joined student did not change, and the subject declined
C16_Witness ==
    /\ AveragesGiven
    /\ KeySet(multi_sheet_data) \ KeySet(PreviousData) # {}
    /\ \A i \in 1..Len(Progress) : Progress[i].v.subjects # <<>>
    /\ \A i \in 1..Len(Progress) :
          \A j \in 1..Len(Progress[i].v.subjects) : Progress[i].v.subjects[j].v.change = 0
    /\ \E subject \in KeySet(avg_comparison[1]) :
          Get(avg_comparison[1], subject).trend = "declined"

(***************************************************************************)
(* C17: when the current and the stored previous snapshot share no student *)
(* compare_student_progress returns an empty mapping, and None when no     *)
(* exam is stored under the name; get_improvement_insights on such a       *)
(* result returns an empty result.  Nothing is raised.                     *)
(***************************************************************************)
C17_EmptyComparison ==
    /\ (pc = "compared" /\ ~Has(historical_exams, previous_exam_name))
          => progress_data = None
    /\ (Compared /\ Joined = {}) => progress_data = Some(<<>>)
    /\ (pc = "insights" /\ (progress_data = None \/ progress_data = Some(<<>>)))
          => insights = <<>>

\* two snapshots with students, none in common: the comparison is empty and
\* so are the insights asked of it
C17_Witness ==
    /\ pc = "insights"
    /\ Has(historical_exams, previous_exam_name)
    /\ multi_sheet_data # <<>>
    /\ PreviousData # <<>>
    /\ Joined = {}
    /\ progress_data = Some(<<>>)
    /\ insights = <<>>

(***************************************************************************)
(* C18: ranking an empty input gives an empty ranking and no error:        *)
(* calculate_rankings on an empty mark list, create_overall_ranking on     *)
(* empty subject data, create_comprehensive_ranking on an empty snapshot.  *)
(***************************************************************************)
NoSubjectMarks == \A i \in 1..Len(subject_data) : subject_data[i].v = <<>>

C18_EmptyRankings ==
    /\ (pc = "ranked" /\ marks = <<>>) => rankings = <<>>
    /\ (pc = "overall" /\ NoSubjectMarks) => overall_ranking = <<>>
    /\ (pc = "analysed" /\ multi_sheet_data = <<>>) => rankings = <<>>

\* no mark, names given, subjects without marks and no student: after the
\* three rankings each result is the empty list
C18_Witness ==
    /\ pc = "analysed"
    /\ marks = <<>>
    /\ student_names # <<>>
    /\ subject_data # <<>>
    /\ NoSubjectMarks
    /\ multi_sheet_data = <<>>
    /\ rankings = <<>>
    /\ overall_ranking = <<>>
    /\ Has(historical_exams, exam_name)

(***************************************************************************)
(* C19: in consolidate_student_data a row whose name or whose score is     *)
(* missing creates no student entry and no subject entry, and the other    *)
(* rows are consolidated: every subject entry of the snapshot comes from a *)
(* row with both fields, and every such row has its entry.                 *)
(***************************************************************************)
SubjectOfSheet(sheet) == Title(ReplaceUnderscores(sheet.k))

CompleteRow(row) == ~row.name.nan /\ ~row.score.nan /\ Strip(row.name.v) # <<>>

C19_IncompleteRowsExcluded ==
    pc = "consolidated" =>
        /\ \A i \in 1..Len(multi_sheet_data) :
              \A j \in 1..Len(multi_sheet_data[i].v) :
                 multi_sheet_data[i].v[j].k # TotalKey =>
                    \E s \in 1..Len(sheets_data) :
                       \E r \in 1..Len(sheets_data[s].v) :
                          LET row == sheets_data[s].v[r] IN
                          /\ SubjectOfSheet(sheets_data[s]) = multi_sheet_data[i].v[j].k
                          /\ CompleteRow(row)
                          /\ Canonical(Strip(row.name.v)) = multi_sheet_data[i].k
                          /\ row.score.v = multi_sheet_data[i].v[j].v
        /\ \A s \in 1..Len(sheets_data) :
              \A r \in 1..Len(sheets_data[s].v) :
                 LET row == sheets_data[s].v[r] IN
                 CompleteRow(row) =>
                    /\ Has(multi_sheet_data, Canonical(Strip(row.name.v)))
                    /\ Has(Get(multi_sheet_data, Canonical(Strip(row.name.v))),
                           SubjectOfSheet(sheets_data[s]))

AnchorOf(names, k) ==
    CHOOSE j \in 1..k :
        /\ IsAnchor(names, j)
        /\ j = k \/ Similar(names[j], names[k])
        /\ \A i \in 1..(j - 1) : ~(IsAnchor(names, i) /\ Similar(names[i], names[k]))

ClusterOf(names, j) == {m \in 1..Len(names) : AnchorOf(names, m) = j}

\* the first of the longest names of the cluster, in first-seen order
LabelOf(names, j) ==
    names[CHOOSE m \in ClusterOf(names, j) :
        \A o \in ClusterOf(names, j) :
            \/ Len(names[o]) < Len(names[m])
            \/ Len(names[o]) = Len(names[m]) /\ m <= o]

C21_GreedyAnchoredClusters ==
    pc = "consolidated" =>
        LET names == AllStudents(sheets_data) IN
        /\ Len(consolidated_names) = Len(names)
        /\ \A k \in 1..Len(names) :
              /\ Has(consolidated_names, names[k])
              /\ Canonical(names[k]) = LabelOf(names, AnchorOf(names, k))

\* "Jo" takes "jo", of the same length, and stays the label; "on" is alone
C21_Witness ==
    /\ pc = "consolidated"
    /\ AllStudents(sheets_data) = <<JoCap, On, Jo>>
    /\ Canonical(JoCap) = JoCap
    /\ Canonical(Jo) = JoCap
    /\ Canonical(On) = On

(***************************************************************************)
(* C22: get_improvement_insights reports the class as "improving" exactly  *)
(* when the mean of all total_change values is above 2, as "declining"     *)
(* exactly when it is below -2, and as "stable" otherwise; the band of a   *)
(* student is 5, the band of the class is 2.                               *)
(***************************************************************************)
RECURSIVE ChangeSum(_)
ChangeSum(n) == IF n = 0 THEN 0 ELSE ChangeSum(n - 1) + Change(n)

\* the mean is above the limit: the sum against the limit times the count
MeanAbove(limit) == ChangeSum(Len(Progress)) > limit * Len(Progress)
MeanBelow(limit) == ChangeSum(Len(Progress)) < limit * Len(Progress)

C22_ClassTrend ==
    InsightsGiven =>
        /\ insights # <<>>
        /\ insights[1].overall_class_trend \in {"improving", "declining", "stable"}
        /\ insights[1].overall_class_trend = "improving" <=> MeanAbove(2)
        /\ insights[1].overall_class_trend = "declining" <=> MeanBelow(-2)

\* one student changed by 5, "stable" for the student, "improving" for the class
C22_Witness ==
    /\ InsightsGiven
    /\ Len(Progress) = 1
    /\ Change(1) = 5
    /\ Progress[1].v.overall_trend = "stable"
    /\ insights[1].overall_class_trend = "improving"

(***************************************************************************)
(* C23: when several rows of one sheet map to the same canonical student,  *)
(* the score recorded for the student under the subject of the sheet is    *)
(* the score of the last of these rows that has a score, in row order; the *)
(* earlier rows leave no trace, and Total counts the subject once.  The    *)
(* entry under the key Total itself is the sum of line 247, so the entry   *)
(* is compared for the subjects other than Total, and the sum for all the  *)
(* sheets.                                                                 *)
(***************************************************************************)
\* the student under which the second pass records a row
StudentOfRow(row) ==
    LET original_name == Strip(Str(row.name))
    IN IF Has(consolidated_names, original_name)
       THEN Canonical(original_name) ELSE original_name

\* the rows of the s-th sheet with a score that map to the student
ScoredRows(s, student) ==
    {r \in 1..Len(sheets_data[s].v) :
        /\ ~sheets_data[s].v[r].score.nan
        /\ StudentOfRow(sheets_data[s].v[r]) = student}

LastOf(S) == CHOOSE r \in S : \A o \in S : o <= r

LastScore(s, student) == sheets_data[s].v[LastOf(ScoredRows(s, student))].score.v

RECURSIVE SumOfLastScores(_, _)
SumOfLastScores(n, student) ==
    IF n = 0 THEN 0
    ELSE SumOfLastScores(n - 1, student)
         + (IF ScoredRows(n, student) = {} THEN 0 ELSE LastScore(n, student))

Summary == class_summary[1]

RECURSIVE SumOfCounts(_)
SumOfCounts(counts) == IF counts = <<>> THEN 0 ELSE counts[1].v + SumOfCounts(Tail(counts))

C24_SummaryOfRanking ==
    (pc = "summarised" /\ rankings # <<>>) =>
        /\ class_summary # <<>>
        /\ Len(rankings) = Len(marks)
        /\ Summary.total_students = Len(rankings)
        /\ Summary.top_performer = rankings[1].student_name
        /\ rankings[1].rank = 1
        /\ \A i \in 1..Len(rankings) : rankings[i].score <= rankings[1].score
        /\ Summary.highest_score = rankings[1].score
        /\ SumOfCounts(Summary.grade_distribution) = Summary.total_students
        /\ \A i \in 1..Len(Summary.grade_distribution) :
              Summary.grade_distribution[i].v =
                 Cardinality({j \in 1..Len(rankings) :
                                rankings[j].grade = Summary.grade_distribution[i].k})

\* three students, two of them with the top grade: Bob is first with 3 of 4
C24_Witness ==
    /\ pc = "summarised"
    /\ marks = <<1, 3, 3>>
    /\ student_names = <<"Ann", "Bob">>
    /\ Summary.total_students = 3
    /\ Summary.top_performer = "Bob"
    /\ Summary.highest_score = 3
    /\ Summary.lowest_score = 1
    /\ Summary.grade_distribution = <<[k |-> "B+", v |-> 2], [k |-> "F", v |-> 1]>>

(***************************************************************************)
(* C25: in UserManager, after any sequence of authenticate_user,           *)
(* create_exam_session, load_exam_session, save_current_session_data and   *)
(* logout_user calls, a current_session_id that is not None refers to an   *)
(* exam session owned by the authenticated user; load_exam_session of a    *)
(* session of another user returns "Access denied" and leaves              *)
(* current_session_id and the loaded data as they are; data is never saved *)
(* into a session owned by a different user.                               *)
(***************************************************************************)
OwnsCurrentSession ==
    current_session_id # None =>
        /\ user_authenticated
        /\ current_user # None
        /\ current_session_id[1] \in 1..Len(exam_sessions)
        /\ exam_sessions[current_session_id[1]].user_id = current_user[1].id

\* a step of load_exam_session on a session of another user
DeniedLoad ==
    /\ pc' = "load"
    /\ current_user # None
    /\ \E session_id \in 1..Len(exam_sessions) :
          /\ exam_sessions[session_id].user_id # current_user[1].id
          /\ LoadExamSession(session_id)

\* the rows of a session change only by a save of its owner
SavedByOwner ==
    \A session_id \in 1..Len(exam_sessions) :
        exam_sessions'[session_id].student_data # exam_sessions[session_id].student_data =>
            /\ current_user # None
            /\ exam_sessions[session_id].user_id = current_user[1].id

C25_SessionsOfCurrentUser ==
    /\ []OwnsCurrentSession
    /\ [][/\ DeniedLoad =>
                /\ message' = Returned(FALSE, "Access denied")
                /\ UNCHANGED <<current_session_id, multi_sheet_data>>
           /\ SavedByOwner]_vars

(***************************************************************************)
(* C26: the exam history is a map keyed by exam name.  After any sequence  *)
(* of store_exam_data calls get_stored_exams lists each stored name        *)
(* exactly once; a store under a name replaces the snapshot stored under   *)
(* that name and leaves the snapshots under all other names as they are;   *)
(* nothing else writes the history, so the snapshot compared against for a *)
(* name is the one of the most recent store under it.                      *)
(***************************************************************************)
EachNameOnce ==
    /\ \A i, j \in 1..Len(historical_exams) :
          historical_exams[i].k = historical_exams[j].k => i = j
    /\ pc = "listed" =>
          /\ Range(stored_exams) = KeySet(historical_exams)
          /\ \A i, j \in 1..Len(stored_exams) : stored_exams[i] = stored_exams[j] => i = j

\* a step of store_exam_data(exam_name, multi_sheet_data)
StoreReplaces ==
    pc' = "analysed" =>
        /\ KeySet(historical_exams') = KeySet(historical_exams) \cup {exam_name}
        /\ Len(historical_exams') = Cardinality(KeySet(historical_exams'))
        /\ Get(historical_exams', exam_name).student_data = multi_sheet_data
        /\ \A name \in KeySet(historical_exams) \ {exam_name} :
              Get(historical_exams', name) = Get(historical_exams, name)

\* a step of compare_student_progress(multi_sheet_data, previous): the scores
\* called previous are those stored under the name
ComparesWithStored ==
    pc' = "compared" =>
        IF Has(historical_exams, previous_exam_name')
        THEN /\ progress_data' # None
             /\ \A i \in 1..Len(progress_data'[1]) :
                   LET record == progress_data'[1][i]
                       stored == Get(historical_exams, previous_exam_name').student_data
                   IN /\ Has(stored, record.k)
                      /\ \A j \in 1..Len(record.v.subjects) :
                            record.v.subjects[j].v.previous =
                               Get(Get(stored, record.k), record.v.subjects[j].k)
        ELSE progress_data' = None

C26_HistoryKeyedByName ==
    /\ []EachNameOnce
    /\ [][/\ StoreReplaces
           /\ pc' # "analysed" => historical_exams' = historical_exams
           /\ ComparesWithStored]_vars

\* "Mid" was stored and listed, then "Final" was stored, then "Mid" again,
\* with another snapshot than the one that is under "Final"
C26_Witness ==
    /\ pc = "analysed"
    /\ exam_name = "Mid"
    /\ stored_exams = <<"Mid">>
    /\ Len(historical_exams) = 2
    /\ historical_exams[1] = Item("Mid", [student_data |-> multi_sheet_data])
    /\ historical_exams[2].k = "Final"
    /\ historical_exams[2].v.student_data # multi_sheet_data
    /\ multi_sheet_data # <<>>

(***************************************************************************)
(* C27: comparing a snapshot with itself reports no change: after          *)
(* store_exam_data(name, S), compare_student_progress(S, name) contains    *)
(* every student of S, with change 0 and percentage_change 0 for every     *)
(* subject, total_change 0, no improved and no declined subject and the    *)
(* overall_trend "stable"; get_improvement_insights on it reports the      *)
(* overall_class_trend "stable" and every student as a consistent          *)
(* performer.                                                              *)
(***************************************************************************)
\* the last call compared the current snapshot with itself
SelfCompared ==
    /\ Compared
    /\ PreviousData = multi_sheet_data

NoChange ==
    /\ progress_data # None
    /\ Len(Progress) = Len(multi_sheet_data)
    /\ \A i \in 1..Len(multi_sheet_data) :
          /\ Progress[i].k = multi_sheet_data[i].k
          /\ KeySet(Progress[i].v.subjects) = KeySet(multi_sheet_data[i].v)
          /\ \A j \in 1..Len(Progress[i].v.subjects) :
                /\ Progress[i].v.subjects[j].v.change = 0
                /\ Progress[i].v.subjects[j].v.percentage_change.num = 0
          /\ Progress[i].v.total_change = 0
          /\ Progress[i].v.improved_subjects = <<>>
          /\ Progress[i].v.declined_subjects = <<>>
          /\ Progress[i].v.overall_trend = "stable"

\* what get_improvement_insights returned in the next state
AllStable ==
    /\ insights' # <<>>
    /\ insights'[1].overall_class_trend = "stable"
    /\ Range(insights'[1].consistent_performers) = KeySet(multi_sheet_data)
    /\ Len(insights'[1].consistent_performers) = Len(multi_sheet_data)

\* the statement as it is made, for every snapshot
C27_SelfComparisonAllStable ==
    /\ [](SelfCompared => NoChange)
    /\ [][(SelfCompared /\ pc' = "insights") => AllStable]_vars

\* the statement for a snapshot with students; for the snapshot without
\* students the comparison is empty and get_improvement_insights returns {}
C27_SelfComparisonNoChange ==
    /\ [](SelfCompared => NoChange)
    /\ [][(SelfCompared /\ pc' = "insights") =>
              IF multi_sheet_data = <<>> THEN insights' = <<>> ELSE AllStable]_vars

\* two students compared with themselves, and the insights on the result
C27_Witness ==
    /\ SelfCompared
    /\ Len(multi_sheet_data) = 2
    /\ Len(Progress) = 2
    /\ insights # <<>>
    /\ insights[1].overall_class_trend = "stable"
    /\ Len(insights[1].consistent_performers) = 2

(***************************************************************************)
(* C28: the name clustering is a partition with fixed-point labels: every  *)
(* distinct non-blank raw name is mapped to exactly one canonical name,    *)
(* that canonical name is one of the raw names, and every canonical name   *)
(* is mapped to itself; so every key of the snapshot that came from a      *)
(* named row is a canonical name.                                          *)
(***************************************************************************)
NamedRow(row) == ~row.name.nan /\ Strip(row.name.v) # <<>>

\* the distinct non-blank names of the rows
RawNamesOfRows ==
    UNION {{Strip(sheets_data[s].v[r].name.v) :
               r \in {q \in 1..Len(sheets_data[s].v) : NamedRow(sheets_data[s].v[q])}} :
           s \in 1..Len(sheets_data)}

CanonicalNames == {Canonical(name) : name \in RawNamesOfRows}

C28_FixedPointLabels ==
    pc = "consolidated" =>
        /\ KeySet(consolidated_names) = RawNamesOfRows
        /\ Len(consolidated_names) = Cardinality(RawNamesOfRows)
        /\ CanonicalNames \subseteq RawNamesOfRows
        /\ \A name \in CanonicalNames : Canonical(name) = name
        /\ \A s \in 1..Len(sheets_data) :
              \A r \in 1..Len(sheets_data[s].v) :
                 LET row == sheets_data[s].v[r] IN
                 (NamedRow(row) /\ ~row.score.nan) =>
                    Has(multi_sheet_data, Canonical(Strip(row.name.v)))
        /\ \A i \in 1..Len(multi_sheet_data) :
              \/ multi_sheet_data[i].k \in CanonicalNames
              \/ \E s \in 1..Len(sheets_data) :
                    \E r \in 1..Len(sheets_data[s].v) :
                       /\ sheets_data[s].v[r].name.nan
                       /\ multi_sheet_data[i].k = Str(sheets_data[s].v[r].name)

\* "Jo", "jo" and "jon" on two sheets: one cluster, labelled "jon", and one
\* student "jon" in the snapshot
C28_Witness ==
    /\ pc = "consolidated"
    /\ Len(sheets_data) = 2
    /\ RawNamesOfRows = {JoCap, Jo, Jon}
    /\ CanonicalNames = {Jon}
    /\ Canonical(Jon) = Jon
    /\ KeySet(multi_sheet_data) = {Jon}

(***************************************************************************)
(* C29: the two notions of stability agree: for every progress mapping     *)
(* produced by compare_student_progress, get_improvement_insights lists a  *)
(* student in consistent_performers exactly when the overall_trend of the  *)
(* student is "stable", and most_improved has a total_change >= that of    *)
(* most_declined; they are the same student when one student was joined.   *)
(* For the mapping without students nothing is returned, and no student is *)
(* listed.                                                                 *)
(***************************************************************************)
\* get_improvement_insights ran on the mapping that compare_student_progress
\* returned
InsightsOnProgress ==
    /\ progress_data # None
    /\ pc = "insights" \/ (pc = "compared" /\ Progress # <<>>)

Listed(student) ==
    /\ insights # <<>>
    /\ student \in Range(insights[1].consistent_performers)

C29_StabilityNotionsAgree ==
    InsightsOnProgress =>
        /\ \A i \in 1..Len(Progress) :
              Listed(Progress[i].k) <=> Progress[i].v.overall_trend = "stable"
        /\ insights # <<>> => Range(insights[1].consistent_performers) \subseteq KeySet(Progress)
        /\ Progress # <<>> =>
              /\ insights # <<>>
              /\ insights[1].most_improved # None
              /\ insights[1].most_declined # None
              /\ insights[1].most_improved[1][2] >= insights[1].most_declined[1][2]
              /\ Len(Progress) = 1 =>
                    /\ insights[1].most_improved[1][1] = Progress[1].k
                    /\ insights[1].most_declined[1][1] = Progress[1].k

\* a student changed by exactly 5, stable and listed, and a student changed
\* by more, improved and not listed
C29_Witness ==
    /\ InsightsOnProgress
    /\ pc = "insights"
    /\ Len(Progress) = 2
    /\ Change(1) = 5
    /\ Progress[1].v.overall_trend = "stable"
    /\ Listed(Progress[1].k)
    /\ Change(2) > 5
    /\ Progress[2].v.overall_trend = "improved"
    /\ ~Listed(Progress[2].k)
    /\ insights[1].most_improved[1][1] = Progress[2].k
    /\ insights[1].most_declined[1][1] = Progress[1].k

(***************************************************************************)
(* C30: calculate_rankings returns a permutation of its input in           *)
(* non-increasing score order: one entry per mark, each with the name at   *)
(* the original position of the mark, or "Student k" for the original      *)
(* position k when the name list is absent, too short or blank there; and  *)
(* entries with equal scores are in their original input order.            *)
(***************************************************************************)
Positions == 1..Len(marks)

PermutationsOfPositions ==
    {p \in [Positions -> Positions] : \A i, j \in Positions : p[i] = p[j] => i = j}

\* the name of the mark at position k of the input
NameAt(k) ==
    IF k <= Len(student_names) /\ student_names[k] # ""
    THEN student_names[k]
    ELSE "Student " \o ToString(k)

C30_RankingIsStablePermutation ==
    pc \in {"ranked", "summarised"} =>
        /\ Len(rankings) = Len(marks)
        /\ \E p \in PermutationsOfPositions :
              /\ \A i \in Positions :
                    /\ rankings[i].score = marks[p[i]]
                    /\ rankings[i].student_name = NameAt(p[i])
              /\ \A i, j \in Positions :
                    i < j =>
                       /\ rankings[i].score >= rankings[j].score
                       /\ rankings[i].score = rankings[j].score => p[i] < p[j]

\* the second mark is the largest and has a blank name, the first and the
\* third are equal, and the third has no name
C30_Witness ==
    /\ pc = "ranked"
    /\ marks = <<2, 3, 2>>
    /\ student_names = <<"Ann", "">>
    /\ rankings[1].student_name = "Student 2"
    /\ rankings[2].student_name = "Ann"
    /\ rankings[3].student_name = "Student 3"
    /\ rankings[2].score = rankings[3].score

====

